---- MODULE Spec2Model ----
(***************************************************************************)
(* Model of the homelab manager backend: the Lab Orchestrator              *)
(* (src/backend/core/lab_manager.py), its state file, its background       *)
(* deployment workers, the task endpoint and the collaborators it calls.   *)
(*                                                                         *)
(* HTTP handlers that call the orchestrator synchronously are one action   *)
(* each.  A deployment worker is a thread: it is modelled by one action    *)
(* per stretch of deploy_task / _deploy_lab between two points at which    *)
(* another thread's handler can be served.  The orchestrator's operations  *)
(* act on the LabManager that create_app builds; how the route handlers    *)
(* of backend/api reach it is the route layer's part.                      *)
(***************************************************************************)
EXTENDS Integers, Sequences, FiniteSets, TLC

\* ------------------------------------------------------------------ bounds
MaxClock == 1        \* the wall clock takes the seconds 0..MaxClock

\* ------------------------------------------------------------ input domains
Labs == {"lab1"}
TaskIds == {1}        \* the deployment threads the model follows at a time

\* A Python dict is a function; a dict key is <<type, text>> so that the
\* str and int keys YAML can produce stay distinct in memory.
EmptyMap == [x \in {} |-> x]

Put(f, k, v) == [x \in (DOMAIN f) \cup {k} |-> IF x = k THEN v ELSE f[x]]

Del(f, k) == [x \in (DOMAIN f) \ {k} |-> f[x]]

\* lab-metadata.yaml documents as yaml.safe_load returns them
MetaPlain == [k \in {<<"str", "name">>} |-> "Demo Lab"]

MetaIntKey == [k \in {<<"str", "name">>, <<"int", "10">>} |->
                 IF k = <<"str", "name">> THEN "Demo Lab" ELSE "mgmt"]

Metadatas == {MetaPlain, MetaIntKey}

\* ------------------------------------------------------------- JSON codec
\* json.dump writes every dict key as a JSON string: str(k) for an int key.
JsonKey(k) == <<"str", k[2]>>

JsonDumpDict(d) ==
    [k2 \in {JsonKey(k) : k \in DOMAIN d} |->
        d[CHOOSE k \in DOMAIN d : JsonKey(k) = k2]]

JsonDumpRepo(r) ==
    [path |-> r.path, url |-> r.url,
     metadata |-> JsonDumpDict(r.metadata), added |-> r.added]

\* The document json.dump(self.state) writes; json.load maps a JSON
\* document to the equal Python value, so the loaded state is the document.
JsonDump(st) ==
    [repos |-> [l \in DOMAIN st.repos |-> JsonDumpRepo(st.repos[l])],
     deployments |-> st.deployments,
     dep_order |-> st.dep_order]

EmptyState == [repos |-> EmptyMap, deployments |-> EmptyMap, dep_order |-> <<>>]

\* ---------------------------------------------------------------- state
VARIABLES
    alive,          \* the backend process is running
    repos,          \* self.state["repos"]
    deployments,    \* self.state["deployments"]
    dep_order,      \* insertion order of the keys of self.state["deployments"]
    disk,           \* content of the state file
    active_tasks,   \* self.active_tasks
    worker,         \* per task id: the deploy_task thread
    netbox,         \* self.netbox: present, enabled, cached api handle
    ipam,           \* IP address records of the external IPAM system
    now,            \* wall clock, in seconds
    last,           \* the last handler served: operation, argument, answer
    app,            \* the Flask application: app.lab_manager and, per
                    \* blueprint module, its module-level name lab_manager
    clab,           \* ClabRunner: the bootstrap_lab call in progress, its
                    \* subprocess and the files of logs_dir
    config,         \* the configuration file and the last settings answer
    cli             \* the labctl process: its position, requests, exit code

vars == <<alive, repos, deployments, dep_order, disk, active_tasks,
          worker, netbox, ipam, now, last, app, clab, config, cli>>

\* The variables of the backend process and of the IPAM system
backend == <<alive, repos, deployments, dep_order, disk, active_tasks,
             worker, netbox, ipam, now, last, app>>

State == [repos |-> repos, deployments |-> deployments, dep_order |-> dep_order]

\* ------------------------------------------------------------ state file
\* open(state_file, 'w') truncates the file, json.dump then writes it chunk
\* by chunk.  A process that dies in _save_state ("killed") leaves a strict
\* prefix of the document, the empty file included.
CrashPoints == {"none", "killed"}

_save_state(st, crash) ==
    IF crash = "none" THEN [kind |-> "complete", doc |-> JsonDump(st)]
    ELSE [kind |-> "partial", doc |-> EmptyState]

\* json.load raises on a file that is not one complete JSON document
Loadable(d) == d.kind \in {"absent", "complete"}

_load_state(d) == IF d.kind = "absent" THEN EmptyState ELSE d.doc

\* -------------------------------------------------- IP-management (NetBox)
PoolSize == 3        \* addresses of the configured prefix

\* clab_tools_files/nodes.csv of a lab: the hostname column; the lab
\* "solo" has a single node
NodesCsv(lab) == IF lab = "solo" THEN <<"r1">> ELSE <<"r1", "r2">>

MaxNodes == Len(NodesCsv("lab1"))

ConnOutcomes == {"ok", "ctor_fail", "status_fail"}

NoNetbox == [configured |-> FALSE, present |-> FALSE, enabled |-> FALSE, api |-> FALSE]

\* LabManager.__init__: a NetBoxManager is built only when netbox.enabled
NewNetbox(configured) ==
    [configured |-> configured, present |-> configured,
     enabled |-> configured, api |-> FALSE]

\* NetBoxManager.__init__ on a configuration whose 'enabled' is cfg, with
\* pynetbox importable (available) or not
NetBoxManager(cfg, available) ==
    [configured |-> cfg, present |-> TRUE, enabled |-> cfg /\ available, api |-> FALSE]

\* An api property that leaves the integration enabled when the connection
\* fails
api_StaysEnabled(nb, conn) ==
    IF ~nb.enabled THEN [nb |-> nb, handle |-> FALSE, ext |-> <<>>]
    ELSE IF nb.api THEN [nb |-> nb, handle |-> TRUE, ext |-> <<>>]
    ELSE IF conn = "ok"
         THEN [nb |-> [nb EXCEPT !.api = TRUE], handle |-> TRUE, ext |-> <<"connect", "status">>]
    ELSE IF conn = "status_fail"
         THEN [nb |-> nb, handle |-> FALSE, ext |-> <<"connect", "status!">>]
    ELSE [nb |-> nb, handle |-> FALSE, ext |-> <<"connect!">>]

\* NetBoxManager.api: the lazily established, cached handle.  ext: what the
\* access does towards NetBox, "connect" the construction of the handle,
\* "status" the probe, "!" one that raised.
api(nb, conn) ==
    IF ~nb.enabled THEN [nb |-> nb, handle |-> FALSE, ext |-> <<>>]
    ELSE IF nb.api THEN [nb |-> nb, handle |-> TRUE, ext |-> <<>>]
    ELSE IF conn = "ok"
         THEN [nb |-> [nb EXCEPT !.api = TRUE], handle |-> TRUE, ext |-> <<"connect", "status">>]
    ELSE IF conn = "status_fail"
         THEN [nb |-> [nb EXCEPT !.api = TRUE, !.enabled = FALSE], handle |-> FALSE,
               ext |-> <<"connect", "status!">>]
    ELSE [nb |-> [nb EXCEPT !.enabled = FALSE], handle |-> FALSE, ext |-> <<"connect!">>]

\* prefix.available_ips.list(): the addresses of the prefix without a record
AvailableIps(ip) == {a \in (1..PoolSize) : \A r \in ip.ips : r.address # a}

NthAvailable(S, i) == CHOOSE a \in S : Cardinality({b \in S : b < a}) = i - 1

IndexOf(seq, x) == CHOOSE i \in 1..Len(seq) : seq[i] = x

Range(seq) == {seq[i] : i \in 1..Len(seq)}

\* A rollback that deletes nothing
_rollback_allocations_None(ip, created, failDel) == [ipam |-> ip, log |-> <<>>]

\* NetBoxManager._rollback_allocations: a delete is issued for every record
\* of created (a sequence); the deletes at the positions failDel throw and
\* leave their record.  log: the REST calls issued, "delete!" one that threw.
_rollback_allocations(ip, created, failDel) ==
    LET gone == {created[i] : i \in (1..Len(created)) \ failDel}
    IN  [ipam |-> [ip EXCEPT !.ips = {r \in ip.ips : r \notin gone}],
         log |-> [i \in 1..Len(created) |->
                     IF i \in failDel THEN "delete!" ELSE "delete"]]

\* An allocation that does not compare the two lengths
Insufficient_Never(avail, n) == FALSE

\* line 96: the prefix has fewer available addresses than nodes
Insufficient(avail, n) == Cardinality(avail) < n

\* The first iteration of the creation loop (lines 100-125) that raises:
\* the failAt-th create call throws, or available_ips[i] is out of range
\* (IndexError, before the create call); 0 when no iteration raises.
FirstRaise(avail, n, failAt) ==
    LET bad == {i \in 1..n : i = failAt \/ i > Cardinality(avail)}
    IN  IF bad = {} THEN 0 ELSE CHOOSE i \in bad : \A j \in bad : i <= j

\* NetBoxManager.allocate_ips.  failAt = k > 0: the k-th create call throws.
\* ret: the mapping returned; log: the REST calls issued on IP records,
\* "create!" a create that threw.
allocate_ips(nb, ip, lab, nodes, conn, prefixOk, failAt, failDel) ==
    LET a == api(nb, conn)
        avail == AvailableIps(ip)
        n == Len(nodes)
        stop == FirstRaise(avail, n, failAt)
        made == IF stop = 0 THEN n ELSE stop - 1
        rec(i) == [address |-> NthAvailable(avail, i), lab |-> lab, node |-> nodes[i]]
        created == [i \in 1..made |-> rec(i)]
        creates == [i \in 1..made |-> "create"]
        threw == IF stop # 0 /\ stop <= Cardinality(avail) THEN <<"create!">> ELSE <<>>
        with == [ip EXCEPT !.ips = @ \cup Range(created)]
        rb == _rollback_allocations(with, created, failDel)
    IN  IF ~nb.enabled \/ ~a.handle
        THEN [nb |-> a.nb, ipam |-> ip, ret |-> EmptyMap, log |-> <<>>, ext |-> a.ext]
        ELSE IF ~prefixOk
        THEN [nb |-> a.nb, ipam |-> ip, ret |-> EmptyMap, log |-> <<>>,
              ext |-> a.ext \o <<"prefixes.get">>]
        ELSE IF Insufficient(avail, n)
        THEN [nb |-> a.nb, ipam |-> ip, ret |-> EmptyMap, log |-> <<>>,
              ext |-> a.ext \o <<"prefixes.get", "available_ips.list">>]
        ELSE IF stop # 0
        THEN [nb |-> a.nb, ipam |-> rb.ipam, ret |-> EmptyMap,
              log |-> creates \o threw \o rb.log,
              ext |-> a.ext \o <<"prefixes.get", "available_ips.list">>
                         \o creates \o threw \o rb.log]
        ELSE [nb |-> a.nb, ipam |-> with,
              ret |-> [nd \in Range(nodes) |-> NthAvailable(avail, IndexOf(nodes, nd))],
              log |-> creates,
              ext |-> a.ext \o <<"prefixes.get", "available_ips.list">> \o creates]

\* The delete calls of a set of records
Deletes(S) == [i \in 1..Cardinality(S) |-> "delete"]

\* A release_ips without the test of line 143
release_ips_Unguarded(nb, ip, lab, conn, filterOk) ==
    IF ~filterOk
    THEN [nb |-> nb, ipam |-> ip, ret |-> FALSE, ext |-> <<"ip_addresses.filter!">>]
    ELSE [nb |-> nb, ipam |-> [ip EXCEPT !.ips = {r \in @ : r.lab # lab}],
          ret |-> TRUE,
          ext |-> <<"ip_addresses.filter">> \o Deletes({r \in ip.ips : r.lab = lab})]

\* NetBoxManager.release_ips: delete every record tagged lab-<lab_id>
release_ips(nb, ip, lab, conn, filterOk) ==
    LET a == api(nb, conn)
    IN  IF ~nb.enabled \/ ~a.handle
        THEN [nb |-> a.nb, ipam |-> ip, ret |-> TRUE, ext |-> a.ext]
        ELSE IF ~filterOk
        THEN [nb |-> a.nb, ipam |-> ip, ret |-> FALSE,
              ext |-> a.ext \o <<"ip_addresses.filter!">>]
        ELSE [nb |-> a.nb, ipam |-> [ip EXCEPT !.ips = {r \in @ : r.lab # lab}],
              ret |-> TRUE,
              ext |-> a.ext \o <<"ip_addresses.filter">>
                         \o Deletes({r \in ip.ips : r.lab = lab})]

\* A registration that creates every device it is given
Absent_All(ip, wanted) == wanted

\* lines 272-276: the devices of wanted that devices.get does not find
Absent(ip, wanted) == wanted \ ip.devices

\* NetBoxManager.register_devices: create <lab_id>-<hostname> when absent.
\* setupOk: the lookups of site, role and device type (lines 231-264) do
\* not raise; failed: the nodes whose devices.create raises (logged, the
\* loop goes on).  ret: the names appended to created_devices.
register_devices(nb, ip, lab, nodes, conn, setupOk, failed) ==
    LET a == api(nb, conn)
        wanted == {<<lab, nodes[i]>> : i \in 1..Len(nodes)}
        tried == Absent(ip, wanted)
        made == {d \in tried : d[2] \notin failed}
    IN  IF ~nb.enabled \/ ~a.handle
        THEN [nb |-> a.nb, ipam |-> ip, ret |-> {}, ext |-> a.ext]
        ELSE IF ~setupOk
        THEN [nb |-> a.nb, ipam |-> ip, ret |-> {}, ext |-> a.ext \o <<"sites.get!">>]
        ELSE [nb |-> a.nb, ipam |-> [ip EXCEPT !.devices = @ \cup made],
              ret |-> made,
              ext |-> a.ext \o <<"sites.get", "device_roles.get", "device_types.get">>
                         \o [i \in 1..Len(nodes) |-> "devices.get"]
                         \o [i \in 1..Cardinality(made) |-> "devices.create"]
                         \o [i \in 1..Cardinality(tried \ made) |-> "devices.create!"]]

\* NetBoxManager.unregister_devices: delete every device tagged lab-<lab_id>
unregister_devices(nb, ip, lab, conn, filterOk) ==
    LET a == api(nb, conn)
    IN  IF ~nb.enabled \/ ~a.handle
        THEN [nb |-> a.nb, ipam |-> ip, ret |-> TRUE, ext |-> a.ext]
        ELSE IF ~filterOk
        THEN [nb |-> a.nb, ipam |-> ip, ret |-> FALSE, ext |-> a.ext \o <<"devices.filter!">>]
        ELSE [nb |-> a.nb, ipam |-> [ip EXCEPT !.devices = {d \in @ : d[1] # lab}],
              ret |-> TRUE,
              ext |-> a.ext \o <<"devices.filter">>
                         \o Deletes({d \in ip.devices : d[1] = lab})]

\* NetBoxManager.validate_config: the connection test of an instance whose
\* configuration says enabled; ret is is_valid
validate_config(nb, conn, prefixOk) ==
    LET a == api(nb, conn)
    IN  IF ~nb.configured THEN [nb |-> nb, ret |-> TRUE, ext |-> <<>>]
        ELSE IF ~a.handle THEN [nb |-> a.nb, ret |-> FALSE, ext |-> a.ext]
        ELSE [nb |-> a.nb, ret |-> prefixOk, ext |-> a.ext \o <<"status", "prefixes.get">>]

\* ------------------------------------------------------- records and Init
\* datetime.now().isoformat(): a stamp no operation reads; the model keeps
\* its presence.  Deployment identifiers use the clock's seconds (now).
Stamp == "iso"

IdleWorker ==
    [pc |-> "unused", lab_id |-> "", version |-> "latest", allocate_ips |-> FALSE,
     ip_assignments |-> EmptyMap, deployment_id |-> <<>>, result |-> {}, calls |-> <<>>,
     raised |-> ""]

Answer(op, lab, task, result, calls) ==
    [op |-> op, lab |-> lab, task |-> task, result |-> result, calls |-> calls,
     seen |-> ""]

\* The blueprint modules of backend/api that hold a module-level name
\* lab_manager ("This will be set by the main app"), bound to None when the
\* module is imported.
Blueprints == {"repos", "labs", "tasks", "health"}

\* create_app: builds the one LabManager of the process, stores it as
\* app.lab_manager and registers the blueprints; it assigns the module-level
\* lab_manager of no blueprint module.  The state and the other fields of
\* that LabManager are the variables above; config is the document that
\* load_config returned, which LabManager keeps as self.config and whose
\* nested netbox mapping the NetBoxManager keeps as its self.config.
\*
\* A create_app that binds the module-level name of every blueprint module
create_app_BindsModules(doc) ==
    [lab_manager |-> "LabManager", blueprint |-> [bp \in Blueprints |-> "LabManager"],
     config |-> doc]

create_app(doc) ==
    [lab_manager |-> "LabManager", blueprint |-> [bp \in Blueprints |-> "None"],
     config |-> doc]

\* ClabRunner with no call of bootstrap_lab in progress and an empty logs_dir
NoResult == [success |-> FALSE, error |-> "", missing |-> <<>>, timeout |-> 0]

IdleClab ==
    [pc |-> "idle", dep |-> 0, proc |-> "none", code |-> 0, stdout |-> "none",
     elapsed |-> 0, deadline |-> 0, spawned |-> 0, ret |-> NoResult,
     present |-> {}, logs |-> EmptyMap]

\* ---------------------------------------------------------- configuration
\* A configuration document: a mapping from top-level keys to values, a
\* value being a scalar (s) or a nested mapping of scalars (m).
Scalar(x) == [map |-> FALSE, s |-> x, m |-> EmptyMap]

Mapping(f) == [map |-> TRUE, s |-> "", m |-> f]

\* The one-entry and two-entry mappings of the documents below
Pair(k, v) == [x \in {k} |-> v]

Pair2(k1, v1, k2, v2) == [x \in {k1, k2} |-> IF x = k1 THEN v1 ELSE v2]

\* load_config, lines 33-54: the default document (the keys the model
\* follows) with the given credentials
ConfigWith(pw, ssh, sudo, token) ==
    [k \in {"repos_dir", "clab_tools_password", "remote_credentials",
            "monitoring", "netbox"} |->
        CASE k = "repos_dir" -> Scalar("~/.labctl/repos")
          [] k = "clab_tools_password" -> Scalar(pw)
          [] k = "remote_credentials" ->
                Mapping(Pair2("ssh_password", ssh, "sudo_password", sudo))
          [] k = "monitoring" -> Mapping(Pair("prometheus", "http://localhost:9090"))
          [] OTHER -> Mapping(Pair2("url", "", "token", token))]

default_config == ConfigWith("", "", "", "")

\* yaml.dump(config, f, default_flow_style=False): one line per key in
\* sorted order, the lines of a nested mapping below its key.  The order
\* of the keys of the model:
KeyOrder ==
    <<"clab_tools_password", "extra", "grafana", "monitoring", "netbox", "prometheus",
      "remote_credentials", "repos_dir", "ssh_password", "sudo_password", "token", "url">>

SortedKeys(S) == SelectSeq(KeyOrder, LAMBDA k : k \in S)

YamlDumpMap(f) == [i \in 1..Cardinality(DOMAIN f) |->
                      <<SortedKeys(DOMAIN f)[i], f[SortedKeys(DOMAIN f)[i]]>>]

YamlDump(doc) ==
    [i \in 1..Cardinality(DOMAIN doc) |->
        LET k == SortedKeys(DOMAIN doc)[i]
        IN  IF doc[k].map THEN <<k, "mapping", "", YamlDumpMap(doc[k].m)>>
            ELSE <<k, "scalar", doc[k].s, <<>>>>]

\* yaml.safe_load: the mapping the lines describe
YamlLoadMap(lines) ==
    [k \in {lines[i][1] : i \in 1..Len(lines)} |->
        (CHOOSE l \in {lines[i] : i \in 1..Len(lines)} : l[1] = k)[2]]

YamlLoad(text) ==
    [k \in {text[i][1] : i \in 1..Len(text)} |->
        LET l == CHOOSE x \in {text[i] : i \in 1..Len(text)} : x[1] = k
        IN  IF l[2] = "mapping" THEN Mapping(YamlLoadMap(l[4])) ELSE Scalar(l[3])]

\* create_app calls load_config, which writes the default document when
\* the configuration file is absent
BootConfig(doc) ==
    [file |-> YamlDump(doc),
     answer |-> [op |-> "none", status |-> "", body |-> EmptyMap, request |-> EmptyMap]]

\* load_config on a configuration file that exists: yaml.safe_load
load_config(file) == YamlLoad(file)

\* _deep_update on the nested level, whose values are scalars: every key of
\* updates is assigned
deep_update_scalars(base, updates) ==
    [k \in DOMAIN base \cup DOMAIN updates |->
        IF k \in DOMAIN updates THEN updates[k] ELSE base[k]]

\* A variant of _deep_update that assigns every value of updates, a nested
\* mapping included
_deep_update_Assign(base, updates) ==
    [k \in DOMAIN base \cup DOMAIN updates |->
        IF k \notin DOMAIN updates THEN base[k] ELSE updates[k]]

\* _deep_update: a mapping of updates is merged into a mapping of base,
\* any other value is assigned
_deep_update(base, updates) ==
    [k \in DOMAIN base \cup DOMAIN updates |->
        IF k \notin DOMAIN updates THEN base[k]
        ELSE IF updates[k].map /\ k \in DOMAIN base /\ base[k].map
             THEN Mapping(deep_update_scalars(base[k].m, updates[k].m))
             ELSE updates[k]]

\* _mask_passwords: a copy of the document with the non-empty credentials
\* replaced by '****'
MaskKey(f, k) ==
    [x \in DOMAIN f |-> IF x = k /\ f[x] # "" THEN "****" ELSE f[x]]

_mask_passwords(doc) ==
    [k \in DOMAIN doc |->
        IF k = "clab_tools_password"
        THEN (IF doc[k].map \/ doc[k].s # "" THEN Scalar("****") ELSE doc[k])
        ELSE IF k = "remote_credentials" /\ doc[k].map
        THEN Mapping(MaskKey(MaskKey(doc[k].m, "ssh_password"), "sudo_password"))
        ELSE IF k = "netbox" /\ doc[k].map
        THEN Mapping(MaskKey(doc[k].m, "token"))
        ELSE doc[k]]

\* update_settings, lines 60-65: the allow-listed keys of the body
filtered_data(data) ==
    [k \in DOMAIN data \cap {"clab_tools_password", "remote_credentials",
                              "monitoring", "netbox"} |-> data[k]]

\* The body of an error answer
ErrorBody(text) == Pair("error", Scalar(text))

\* ------------------------------------------------------------------- labctl
\* The labctl process before it is started
IdleCli ==
    [pc |-> "idle", cmd |-> "", health |-> "", requests |-> {}, task |-> 0,
     exit |-> -1]

\* The state after create_app with no state file; configured is
\* netbox.enabled of the configuration.
BootAll(nb, doc) ==
    /\ clab = IdleClab
    /\ config = BootConfig(doc)
    /\ cli = IdleCli
    /\ app = create_app(doc)
    /\ alive = TRUE
    /\ repos = EmptyMap
    /\ deployments = EmptyMap
    /\ dep_order = <<>>
    /\ disk = [kind |-> "absent", doc |-> EmptyState]
    /\ active_tasks = EmptyMap
    /\ worker = [t \in TaskIds |-> IdleWorker]
    /\ netbox = nb
    /\ ipam = [ips |-> {}, devices |-> {}]
    /\ now = 0
    /\ last = Answer("none", "", 0, "", <<>>)

BootWith(configured, doc) == BootAll(NewNetbox(configured), doc)

Boot(configured) == BootWith(configured, default_config)

Init == Boot(FALSE)

\* The effect of a handler that persists the state st and changes the rest
\* of the process memory to (at, w, nb, ans); the process dies in
\* _save_state when crash is not "none" and its memory is lost.
Commit(st, at, w, nb, ans, crash) ==
    /\ disk' = _save_state(st, crash)
    /\ alive' = (crash = "none")
    /\ repos' = IF crash = "none" THEN st.repos ELSE EmptyMap
    /\ deployments' = IF crash = "none" THEN st.deployments ELSE EmptyMap
    /\ dep_order' = IF crash = "none" THEN st.dep_order ELSE <<>>
    /\ active_tasks' = IF crash = "none" THEN at ELSE EmptyMap
    /\ worker' = IF crash = "none" THEN w ELSE [t \in TaskIds |-> IdleWorker]
    /\ netbox' = IF crash = "none" THEN nb ELSE [NoNetbox EXCEPT !.configured = nb.configured]
    /\ last' = IF crash = "none" THEN ans ELSE Answer("crash", "", 0, "", <<>>)
    /\ UNCHANGED <<app, clab, config, cli>>

\* A handler answer that leaves the orchestrator as it is
Reply(ans) ==
    /\ last' = ans
    /\ UNCHANGED <<app, clab, config, cli, alive, repos, deployments, dep_order, disk,
                   active_tasks, worker, netbox, ipam, now>>

\* ------------------------------------------------- repository operations
RepoRecord(name, metadata) ==
    [path |-> <<"repos_dir", name>>, url |-> <<"url", name>>,
     metadata |-> metadata, added |-> Stamp]

\* An add_repo that registers the lab before it looks for lab-metadata.yaml
AddRepo_RegistersFirst(name, exists, git, hasMeta, metadata, crash) ==
    /\ alive
    /\ LET call == IF exists THEN "pull" ELSE "clone"
       IN  IF git # "ok"
           THEN Reply(Answer("add_repo", name, 0, "git failed", <<call>>))
           ELSE /\ UNCHANGED <<ipam, now>>
                /\ Commit([State EXCEPT !.repos = Put(repos, name, RepoRecord(name, metadata))],
                          active_tasks, worker, netbox,
                          Answer("add_repo", name, 0,
                                 IF hasMeta THEN "success" ELSE "lab-metadata.yaml not found",
                                 <<call>>), crash)

\* LabManager.add_repo (POST /api/repos).  exists: the directory is there
\* already and is pulled instead of cloned.
AddRepo(name, exists, git, hasMeta, metadata, crash) ==
    /\ alive
    /\ LET call == IF exists THEN "pull" ELSE "clone"
       IN  IF git # "ok"
           THEN Reply(Answer("add_repo", name, 0, "git failed", <<call>>))
           ELSE IF ~hasMeta
           THEN Reply(Answer("add_repo", name, 0, "lab-metadata.yaml not found", <<call>>))
           ELSE /\ UNCHANGED <<ipam, now>>
                /\ Commit([State EXCEPT !.repos = Put(repos, name, RepoRecord(name, metadata))],
                          active_tasks, worker, netbox,
                          Answer("add_repo", name, 0, "success", <<call>>), crash)

\* The inputs of AddRepo that make a difference
AddRepoInputs ==
    {in \in [exists : BOOLEAN, git : {"ok", "fail"}, hasMeta : BOOLEAN,
             metadata : Metadatas, crash : CrashPoints] :
        /\ (in.git # "ok" => in.hasMeta)
        /\ (in.git # "ok" \/ ~in.hasMeta => in.metadata = MetaPlain /\ in.crash = "none")}

\* LabManager.update_repo (PUT /api/repos/<lab_id>) with given outcomes of
\* its calls
update_repo(lab, git, hasMeta, metadata, crash) ==
    /\ alive
    /\ IF lab \notin DOMAIN repos
       THEN Reply(Answer("update_repo", lab, 0, "Lab not found", <<>>))
       ELSE IF git # "ok"
       THEN Reply(Answer("update_repo", lab, 0, "git failed", <<"pull">>))
       ELSE IF ~hasMeta
       THEN Reply(Answer("update_repo", lab, 0, "raised FileNotFoundError", <<"pull">>))
       ELSE /\ UNCHANGED <<ipam, now>>
            /\ Commit([State EXCEPT !.repos[lab].metadata = metadata],
                      active_tasks, worker, netbox,
                      Answer("update_repo", lab, 0, "success", <<"pull">>), crash)

UpdateRepoInputs(lab) ==
    {in \in [git : {"ok", "fail"}, hasMeta : BOOLEAN,
             metadata : Metadatas, crash : CrashPoints] :
        /\ (lab \notin DOMAIN repos => in.git = "ok")
        /\ (in.git # "ok" => in.hasMeta)
        /\ (lab \notin DOMAIN repos \/ in.git # "ok" \/ ~in.hasMeta
               => in.metadata = MetaPlain /\ in.crash = "none")}

UpdateRepo(lab) ==
    \E in \in UpdateRepoInputs(lab) :
        update_repo(lab, in.git, in.hasMeta, in.metadata, in.crash)

ActiveDeployments(deps, lab) ==
    {d \in DOMAIN deps : deps[d].lab_id = lab /\ deps[d].status = "active"}

\* LabManager.remove_repo (DELETE /api/repos/<lab_id>): the answer
remove_repo(rp, deps, lab) ==
    IF lab \notin DOMAIN rp THEN "Lab not found"
    ELSE IF ActiveDeployments(deps, lab) # {}
    THEN "Cannot remove lab with active deployment"
    ELSE "success"

RemoveRepo(lab, crash) ==
    /\ alive
    /\ LET res == remove_repo(repos, deployments, lab)
       IN  IF res # "success"
           THEN /\ crash = "none"
                /\ Reply(Answer("remove_repo", lab, 0, res, <<>>))
           ELSE /\ UNCHANGED <<ipam, now>>
                /\ Commit([State EXCEPT !.repos = Del(repos, lab)],
                          active_tasks, worker, netbox,
                          Answer("remove_repo", lab, 0, res, <<>>), crash)

\* ------------------------------------------------------------ deployment
Failure(error) == [success |-> FALSE, error |-> error, deployment_id |-> <<>>]

\* A thread that has ended leaves its slot to the next task; the Task
\* Record it leaves behind is never written again and is not followed.
FreeTasks == {t \in TaskIds : worker[t].pc \in {"unused", "finished", "dead"}}

\* LabManager.deploy_lab_async (POST /api/labs/<lab_id>/deploy): a fresh
\* task id is returned and the deploy_task thread is started; the thread
\* has not run yet when the caller has the id.
deploy_lab_async(lab, version, alloc) ==
    /\ alive
    /\ FreeTasks # {}
    \* allocate_ips is read only at line 238, with self.netbox: without an
    \* integration a request with the flag behaves as one without it
    /\ alloc => netbox.present
    /\ LET t == CHOOSE x \in FreeTasks : \A y \in FreeTasks : x <= y
       IN  /\ worker' = [worker EXCEPT ![t] =
                  [IdleWorker EXCEPT !.pc = "spawned", !.lab_id = lab,
                                     !.version = version, !.allocate_ips = alloc]]
           /\ active_tasks' = Del(active_tasks, t)
           /\ last' = Answer("deploy", lab, t, "202", <<>>)
    /\ UNCHANGED <<app, clab, config, alive, repos, deployments, dep_order, disk,
                   netbox, ipam, now>>

\* api/labs.py deploy_lab, served to a client the model does not follow
DeployAsync(lab, version, alloc) ==
    /\ deploy_lab_async(lab, version, alloc)
    /\ UNCHANGED cli

\* deploy_task, lines 203-207: the thread records the task as running
RunningTask(lab) ==
    [status |-> "running", lab_id |-> lab, started |-> Stamp,
     result |-> {}, completed |-> {}]

TaskRegister(t) ==
    /\ alive
    /\ worker[t].pc = "spawned"
    /\ active_tasks' = Put(active_tasks, t, RunningTask(worker[t].lab_id))
    /\ worker' = [worker EXCEPT ![t].pc = "registered"]
    /\ UNCHANGED <<app, clab, config, cli, alive, repos, deployments, dep_order, disk,
                   netbox, ipam, now, last>>

\* LabManager._deploy_lab, line 238: is the allocation step entered
AllocationWanted(w, nb) == w.allocate_ips /\ nb.present /\ nb.enabled

\* A deployment that takes every lab id for registered
Registered_Always(rp, lab) == TRUE

\* line 223: the registration check of _deploy_lab
Registered(rp, lab) == lab \in DOMAIN rp

\* An abort that leaves the allocated addresses
CsvFailure_NoRelease(al, lab) ==
    [calls |-> <<"update_nodes_csv">>, nb |-> al.nb, ipam |-> al.ipam]

\* lines 264-267: update_nodes_csv returned False after the allocation al;
\* the addresses of the lab are released before the error is returned
CsvFailure(al, lab) ==
    LET rl == release_ips(al.nb, al.ipam, lab, "ok", TRUE)
    IN  [calls |-> <<"update_nodes_csv", "release_ips">>, nb |-> rl.nb, ipam |-> rl.ipam]

\* LabManager._deploy_lab, lines 223-277: registration check, checkout,
\* optional IP allocation, then the call of bootstrap_lab.  The answer says
\* where the thread goes next: "bootstrapping", "returned" (with a result)
\* or "dead" (an exception left deploy_task; raised names the operation
\* that let it escape).
_deploy_lab_begin(w, rp, nb, ip, in) ==
    LET lab == w.lab_id
        stop(res, calls, nb2, ip2) ==
            [pc |-> "returned", result |-> {res}, calls |-> calls, nb |-> nb2,
             ipam |-> ip2, ip_assignments |-> EmptyMap, raised |-> ""]
        co == IF w.version # "latest" THEN <<"checkout">> ELSE <<>>
        al == allocate_ips(nb, ip, lab, NodesCsv(lab), in.conn, in.prefixOk,
                           in.failAt, in.failDel)
        cf == CsvFailure(al, lab)
    IN  IF ~Registered(rp, lab) THEN stop(Failure("Lab not found"), <<>>, nb, ip)
        ELSE IF w.version # "latest" /\ in.git = "raise"
        THEN [pc |-> "dead", result |-> {}, calls |-> co, nb |-> nb, ipam |-> ip,
              ip_assignments |-> EmptyMap, raised |-> "GitOperations.checkout"]
        ELSE IF w.version # "latest" /\ in.git = "fail"
        THEN stop(Failure("Git checkout failed"), co, nb, ip)
        ELSE IF AllocationWanted(w, nb)
        THEN IF ~in.nodesExist THEN stop(Failure("nodes.csv not found"), co, nb, ip)
             ELSE IF al.ret = EmptyMap
             THEN stop(Failure("Failed to allocate IPs from NetBox"),
                       co \o <<"allocate_ips">> \o al.log, al.nb, al.ipam)
             ELSE IF ~in.csvOk
             THEN stop(Failure("Failed to update nodes.csv with IPs"),
                       co \o <<"allocate_ips">> \o al.log \o cf.calls, cf.nb, cf.ipam)
             ELSE [pc |-> "bootstrapping", result |-> {},
                   calls |-> co \o <<"allocate_ips">> \o al.log
                                \o <<"update_nodes_csv", "bootstrap_lab">>,
                   nb |-> al.nb, ipam |-> al.ipam, ip_assignments |-> al.ret,
                   raised |-> ""]
        ELSE [pc |-> "bootstrapping", result |-> {}, calls |-> co \o <<"bootstrap_lab">>,
              nb |-> nb, ipam |-> ip, ip_assignments |-> EmptyMap, raised |-> ""]

\* The inputs of DeployBegin that make a difference for the worker w
BeginInputs(w, rp, nb) ==
    {in \in [git : IF w.lab_id \in DOMAIN rp /\ w.version # "latest"
                   THEN {"ok", "fail", "raise"} ELSE {"ok"},
             nodesExist : IF AllocationWanted(w, nb) THEN BOOLEAN ELSE {TRUE},
             conn : IF AllocationWanted(w, nb) /\ ~nb.api THEN ConnOutcomes ELSE {"ok"},
             prefixOk : IF AllocationWanted(w, nb) THEN BOOLEAN ELSE {TRUE},
             failAt : IF AllocationWanted(w, nb) THEN 0..MaxNodes ELSE {0},
             failDel : IF AllocationWanted(w, nb) THEN SUBSET (1..MaxNodes) ELSE {{}},
             csvOk : IF AllocationWanted(w, nb) THEN BOOLEAN ELSE {TRUE}] :
        LET checkout == w.lab_id \in DOMAIN rp /\ w.version # "latest"
            alloc == w.lab_id \in DOMAIN rp /\ in.git = "ok" /\ AllocationWanted(w, nb)
            connect == alloc /\ in.nodesExist /\ ~nb.api
            listed == alloc /\ in.nodesExist /\ in.conn = "ok"
            creating == listed /\ in.prefixOk
        IN  /\ (~checkout => in.git = "ok")
            /\ (~alloc => in.nodesExist)
            /\ (~connect => in.conn = "ok")
            /\ (~listed => in.prefixOk)
            /\ (~creating => in.failAt = 0)
            /\ in.failDel \subseteq 1..(in.failAt - 1)
            /\ (~(creating /\ in.failAt = 0) => in.csvOk)}

DeployBegin(t, safe) ==
    /\ alive
    /\ worker[t].pc = "registered"
    /\ \E in \in BeginInputs(worker[t], repos, netbox) :
       LET r == _deploy_lab_begin(worker[t], repos, netbox, ipam, in)
       IN  /\ safe => in.failDel = {}
           /\ worker' = [worker EXCEPT ![t].pc = r.pc, ![t].result = r.result,
                             ![t].calls = r.calls,
                             ![t].raised = r.raised,
                             ![t].ip_assignments = r.ip_assignments,
                             ![t].deployment_id =
                                 IF r.pc = "bootstrapping" THEN <<worker[t].lab_id, now>>
                                 ELSE <<>>]
           /\ netbox' = r.nb
           /\ ipam' = r.ipam
    /\ UNCHANGED <<app, clab, config, cli, alive, repos, deployments, dep_order, disk,
                   active_tasks, now, last>>

\* A deployment that forgets the rollback
RollbackNeeded_Never(ip_assignments, nb) == FALSE

\* lines 310-314: the rollback after a failed bootstrap
RollbackNeeded(ip_assignments, nb) == ip_assignments # EmptyMap /\ nb.present

\* lines 294-302: the Deployment Record of a successful deployment
DeploymentRecord(w) ==
    [lab_id |-> w.lab_id, version |-> w.version, deployed_at |-> Stamp,
     log_file |-> <<"logs_dir", w.deployment_id>>, status |-> "active",
     netbox_ips_allocated |-> (w.ip_assignments # EmptyMap),
     ip_assignments |-> w.ip_assignments, destroyed_at |-> {}]

AddDeployment(st, dep_id, rec) ==
    [st EXCEPT !.deployments = Put(st.deployments, dep_id, rec),
               !.dep_order = IF dep_id \in DOMAIN st.deployments THEN @
                             ELSE Append(@, dep_id)]

BootOutcomes == {"ok", "fail", "raise"}

\* LabManager._deploy_lab, lines 277-319: bootstrap_lab has answered
DeployBootstrap(t, outcome, crash) ==
    /\ alive
    /\ worker[t].pc = "bootstrapping"
    /\ LET w == worker[t]
           reg == register_devices(netbox, ipam, w.lab_id, NodesCsv(w.lab_id), "ok", TRUE, {})
           rel == release_ips(netbox, ipam, w.lab_id, "ok", TRUE)
       IN  IF outcome = "raise"
           THEN /\ crash = "none"
                /\ worker' = [worker EXCEPT ![t].pc = "dead",
                                             ![t].raised = "ClabRunner.bootstrap_lab"]
                /\ UNCHANGED <<app, clab, config, cli, alive, repos, deployments, dep_order, disk,
                               active_tasks, netbox, ipam, last, now>>
           ELSE IF outcome = "fail"
           THEN /\ crash = "none"
                /\ IF RollbackNeeded(w.ip_assignments, netbox)
                   THEN /\ worker' = [worker EXCEPT ![t].pc = "returned",
                                 ![t].result = {Failure("Bootstrap failed")},
                                 ![t].calls = Append(@, "release_ips")]
                        /\ netbox' = rel.nb
                        /\ ipam' = rel.ipam
                   ELSE /\ worker' = [worker EXCEPT ![t].pc = "returned",
                                 ![t].result = {Failure("Bootstrap failed")}]
                        /\ UNCHANGED <<netbox, ipam>>
                /\ UNCHANGED <<app, clab, config, cli, alive, repos, deployments, dep_order, disk,
                               active_tasks, last, now>>
           ELSE LET withReg == w.ip_assignments # EmptyMap /\ netbox.present
                    w2 == [w EXCEPT !.pc = "returned",
                                    !.result = {[success |-> TRUE, error |-> "",
                                                 deployment_id |-> w.deployment_id]},
                                    !.calls = IF withReg THEN Append(@, "register_devices")
                                              ELSE @]
                    st2 == AddDeployment(State, w.deployment_id, DeploymentRecord(w))
                IN  /\ ipam' = IF withReg THEN reg.ipam ELSE ipam
                    /\ now' = now
                    /\ IF crash = "oserror"
                       THEN /\ repos' = st2.repos
                            /\ deployments' = st2.deployments
                            /\ dep_order' = st2.dep_order
                            /\ netbox' = IF withReg THEN reg.nb ELSE netbox
                            /\ worker' = [worker EXCEPT ![t].pc = "dead",
                                              ![t].calls = w2.calls,
                                              ![t].raised = "LabManager._save_state"]
                            /\ UNCHANGED <<app, clab, config, cli, alive, disk, active_tasks, last>>
                       ELSE Commit(st2, active_tasks, [worker EXCEPT ![t] = w2],
                                   IF withReg THEN reg.nb ELSE netbox, last, crash)

\* deploy_task, line 211
TaskMarkCompleted(t) ==
    /\ alive
    /\ worker[t].pc = "returned"
    /\ active_tasks' = [active_tasks EXCEPT ![t].status = "completed"]
    /\ worker' = [worker EXCEPT ![t].pc = "status_set"]
    /\ UNCHANGED <<app, clab, config, cli, alive, repos, deployments, dep_order, disk,
                   netbox, ipam, now, last>>

\* deploy_task, line 212
TaskSetResult(t) ==
    /\ alive
    /\ worker[t].pc = "status_set"
    /\ active_tasks' = [active_tasks EXCEPT ![t].result = worker[t].result]
    /\ worker' = [worker EXCEPT ![t] = [IdleWorker EXCEPT !.pc = "result_set"]]
    /\ UNCHANGED <<app, clab, config, cli, alive, repos, deployments, dep_order, disk,
                   netbox, ipam, now, last>>

\* deploy_task, line 213: the thread ends
TaskSetCompletedAt(t) ==
    /\ alive
    /\ worker[t].pc = "result_set"
    /\ active_tasks' = [active_tasks EXCEPT ![t].completed = {Stamp}]
    /\ worker' = [worker EXCEPT ![t].pc = "finished"]
    /\ UNCHANGED <<app, clab, config, cli, alive, repos, deployments, dep_order, disk,
                   netbox, ipam, now, last>>

\* destroy_lab, lines 324-328: the first active deployment of the lab in
\* the iteration order of the dict; <<>> when there is none
FirstActive(order, deps, lab) ==
    LET idx == {i \in 1..Len(order) :
                   deps[order[i]].lab_id = lab /\ deps[order[i]].status = "active"}
    IN  IF idx = {} THEN <<>>
        ELSE order[CHOOSE i \in idx : \A j \in idx : i <= j]

\* A destroy that cleans up whenever there is an integration
CleanupNeeded_Always(rec, nb) == nb.present

\* line 344: the NetBox cleanup of a destroyed deployment
CleanupNeeded(rec, nb) == rec.netbox_ips_allocated /\ nb.present

\* A destroy that sets the status and not the time
MarkDestroyed_NoStamp(st, dep_id) ==
    [st EXCEPT !.deployments[dep_id].status = "destroyed"]

\* lines 360-361: the record of a destroyed deployment
MarkDestroyed(st, dep_id) ==
    [st EXCEPT !.deployments[dep_id].status = "destroyed",
               !.deployments[dep_id].destroyed_at = {Stamp}]

\* LabManager.destroy_lab (POST /api/labs/<lab_id>/destroy): the state,
\* the integration, the external records and the answer it leaves (seen:
\* the warning of line 351); saved says whether _save_state was called.
destroy_lab(st, nb, ip, lab, in) ==
    LET dep == FirstActive(st.dep_order, st.deployments, lab)
        rel == release_ips(nb, ip, lab, in.conn, in.relOk)
        unr == unregister_devices(rel.nb, rel.ipam, lab, in.conn, in.unregOk)
        same(result, calls) ==
            [st |-> st, nb |-> nb, ipam |-> ip, saved |-> FALSE,
             answer |-> Answer("destroy_lab", lab, 0, result, calls)]
    IN  IF dep = <<>> THEN same("No active deployment found", <<>>)
        ELSE IF lab \notin DOMAIN st.repos THEN same("raised KeyError", <<>>)
        ELSE IF in.outcome = "raise"
        THEN [same("raised FileNotFoundError", <<"teardown_lab">>)
                 EXCEPT !.answer.seen = "ClabRunner.teardown_lab"]
        ELSE IF in.outcome = "fail" THEN same("Teardown failed", <<"teardown_lab">>)
        ELSE IF CleanupNeeded(st.deployments[dep], nb)
        THEN [st |-> MarkDestroyed(st, dep), nb |-> unr.nb, ipam |-> unr.ipam,
              saved |-> TRUE,
              answer |-> [Answer("destroy_lab", lab, 0, "success",
                                 <<"teardown_lab", "release_ips", "unregister_devices">>)
                             EXCEPT !.seen = IF rel.ret THEN ""
                                             ELSE "Failed to release some NetBox IPs"]]
        ELSE [st |-> MarkDestroyed(st, dep), nb |-> nb, ipam |-> ip, saved |-> TRUE,
              answer |-> Answer("destroy_lab", lab, 0, "success", <<"teardown_lab">>)]

DestroyLabWith(lab, in) ==
    /\ alive
    /\ LET r == destroy_lab(State, netbox, ipam, lab, in)
       IN  IF r.saved
           THEN /\ ipam' = r.ipam
                /\ now' = now
                /\ Commit(r.st, active_tasks, worker, r.nb, r.answer, in.crash)
           ELSE Reply(r.answer)

\* The inputs of DestroyLab that make a difference
DestroyInputs(lab) ==
    LET dep == FirstActive(dep_order, deployments, lab)
        torn == dep # <<>> /\ lab \in DOMAIN repos
        cleanup == torn /\ CleanupNeeded(deployments[dep], netbox) /\ netbox.enabled
    IN  {in \in [outcome : IF torn THEN {"ok", "fail", "raise"} ELSE {"ok"},
                 conn : IF cleanup /\ ~netbox.api THEN ConnOutcomes ELSE {"ok"},
                 relOk : IF cleanup THEN BOOLEAN ELSE {TRUE},
                 unregOk : IF cleanup THEN BOOLEAN ELSE {TRUE},
                 crash : IF torn THEN CrashPoints ELSE {"none"}] :
            /\ (in.outcome # "ok" => in.crash = "none" /\ in.conn = "ok")
            /\ (in.outcome # "ok" \/ in.conn # "ok" => in.relOk /\ in.unregOk)}

\* safe: the process is not killed while the handler writes the state file
DestroyLab(lab, safe) ==
    \E in \in DestroyInputs(lab) :
        /\ safe => in.crash = "none"
        /\ DestroyLabWith(lab, in)

\* LabManager.get_status (GET /api/deployments): the repository of every
\* active deployment is looked up by self.state["repos"][lab_id]
get_status(rp, deps) ==
    IF \E d \in DOMAIN deps : deps[d].status = "active" /\ deps[d].lab_id \notin DOMAIN rp
    THEN "raised KeyError"
    ELSE "success"

GetStatus ==
    /\ alive
    /\ Reply(Answer("get_status", "", 0, get_status(repos, deployments), <<>>))

\* LabManager.get_task_status: the record, or the 'Task not found' sentinel
get_task_status(tasks, t) ==
    IF t \notin DOMAIN tasks THEN [error |-> "Task not found"] ELSE tasks[t]

\* api/tasks.py get_task_status (GET /api/tasks/<task_id>): the HTTP status
TaskHttpStatus(body) == IF "error" \in DOMAIN body THEN "404" ELSE "200"

\* What a record returned by GET /api/tasks/<task_id> shows to its reader
Shows(body) ==
    IF "error" \in DOMAIN body THEN "Task not found"
    ELSE IF body.status = "running" THEN "running"
    ELSE IF body.result = {} THEN "completed without result"
    ELSE IF body.completed = {} THEN "completed without timestamp"
    ELSE "completed"

GetTaskStatus(t) ==
    /\ alive
    /\ LET body == get_task_status(active_tasks, t)
       IN  Reply([Answer("get_task_status", "", t, TaskHttpStatus(body), <<>>)
                     EXCEPT !.seen = Shows(body)])

\* ------------------------------------------------------------ route layer
\* api/repos.py list_repos (GET /api/repos): the handler calls list_repos()
\* on the module-level name lab_manager of its module; seen is the object
\* that name is bound to.  Calling a method of None raises AttributeError.
repos_list_repos ==
    /\ alive
    /\ LET served == app.blueprint["repos"]
       IN  IF served = "None"
           THEN Reply([Answer("GET /api/repos", "", 0, "raised AttributeError", <<>>)
                          EXCEPT !.seen = served])
           ELSE Reply([Answer("GET /api/repos", "", 0, "200", <<"list_repos">>)
                          EXCEPT !.seen = served])

\* api/repos.py add_repo (POST /api/repos): a body without url is refused
\* before the orchestrator is reached; otherwise the handler calls add_repo
\* on the module-level name lab_manager of its module.
repos_add_repo(hasUrl) ==
    /\ alive
    /\ LET served == app.blueprint["repos"]
       IN  IF ~hasUrl
           THEN Reply(Answer("POST /api/repos", "", 0, "400 Repository URL required", <<>>))
           ELSE IF served = "None"
           THEN Reply([Answer("POST /api/repos", "", 0, "raised AttributeError", <<>>)
                          EXCEPT !.seen = served])
           ELSE \E name \in Labs, in \in AddRepoInputs :
                   AddRepo(name, in.exists, in.git, in.hasMeta, in.metadata, in.crash)

\* ------------------------------------------------------------ environment
Tick ==
    /\ now < MaxClock
    /\ now' = now + 1
    /\ UNCHANGED <<app, clab, config, cli, alive, repos, deployments, dep_order, disk,
                   active_tasks, worker, netbox, ipam, last>>

\* The process is stopped or killed while no handler is writing the file
Crash ==
    /\ alive
    /\ alive' = FALSE
    /\ repos' = EmptyMap
    /\ deployments' = EmptyMap
    /\ dep_order' = <<>>
    /\ active_tasks' = EmptyMap
    /\ worker' = [t \in TaskIds |-> IdleWorker]
    /\ netbox' = [NoNetbox EXCEPT !.configured = netbox.configured]
    /\ last' = Answer("crash", "", 0, "", <<>>)
    /\ UNCHANGED <<app, clab, config, cli, disk, ipam, now>>

\* LabManager.__init__ of a new process: the state is read from the file
Restart ==
    /\ ~alive
    /\ UNCHANGED <<app, clab, config, cli, disk, ipam, now, active_tasks, worker>>
    /\ IF Loadable(disk)
       THEN /\ alive' = TRUE
            /\ repos' = _load_state(disk).repos
            /\ deployments' = _load_state(disk).deployments
            /\ dep_order' = _load_state(disk).dep_order
            /\ netbox' = NewNetbox(netbox.configured)
            /\ last' = Answer("construct", "", 0, "success", <<>>)
       ELSE /\ last' = Answer("construct", "", 0, "raised JSONDecodeError", <<>>)
            /\ UNCHANGED <<alive, repos, deployments, dep_order, netbox>>

\* ------------------------------------------------- ClabRunner.bootstrap_lab
\* Time is counted in ticks of 45 seconds from the start of the bootstrap
\* subcommand.
MaxTicks == 4         \* the ticks the model follows a subprocess for
TimeoutTicks == 2     \* process.wait(timeout=90)

\* lines 58-61, 65: the files bootstrap_lab requires, in the order it
\* checks them
RequiredFiles == <<"config.yaml", "nodes.csv", "connections.csv">>

\* A validation that reports the first absent file only
MissingFiles_FirstOnly(present) ==
    LET all == SelectSeq(RequiredFiles, LAMBDA f : f \notin present)
    IN  IF all = <<>> THEN <<>> ELSE <<all[1]>>

\* lines 64-67: the names of the required files that do not exist
MissingFiles(present) == SelectSeq(RequiredFiles, LAMBDA f : f \notin present)

\* The parts of a log file: the header block of lines 86-92, the exit code
\* of line 221 and the error texts of lines 242 and 250
Header == "=== Lab Bootstrap Log ==="

\* bootstrap_lab is called (lines 55-93).  present: the required files that
\* exist under the repository path; logOk: <logs_dir>/<id>.log can be
\* opened for writing.  The validation returns before the log file is
\* opened; open() at line 85 is outside the try block.
BootstrapCall(dep, present, logOk) ==
    /\ clab.pc \in {"idle", "returned", "raised"}
    /\ LET missing == MissingFiles(present)
           c == [clab EXCEPT !.dep = dep, !.present = present, !.proc = "none", !.code = 0,
                             !.stdout = "none", !.elapsed = 0, !.deadline = 0,
                             !.spawned = 0, !.ret = NoResult]
       IN  IF missing # <<>>
           THEN /\ logOk
                /\ clab' = [c EXCEPT !.pc = "returned",
                                !.ret = [NoResult EXCEPT !.error = "Missing required files",
                                                         !.missing = missing]]
           ELSE IF ~logOk
           THEN clab' = [c EXCEPT !.pc = "raised"]
           ELSE clab' = [c EXCEPT !.pc = "prelude",
                                   !.logs = Put(clab.logs, dep, {Header})]
    /\ UNCHANGED <<backend, config, cli>>

BootstrapPrelude(outcome) ==
    /\ clab.pc = "prelude"
    /\ LET ran == CASE outcome = "raise_config" -> 0
                     [] outcome = "raise_run" -> 1
                     [] OTHER -> 3
       IN  IF outcome = "ok"
           THEN clab' = [clab EXCEPT !.pc = "streaming", !.proc = "running",
                                      !.stdout = "open", !.spawned = ran]
           ELSE clab' = [clab EXCEPT !.pc = "returned", !.spawned = ran,
                            !.logs[clab.dep] = @ \cup {"Exception during bootstrap"},
                            !.ret = [NoResult EXCEPT !.error = "Exception during bootstrap"]]
    /\ UNCHANGED <<backend, config, cli>>

\* The subprocess closes its output stream and goes on running
ProcCloseStdout ==
    /\ clab.proc = "running"
    /\ clab.stdout = "open"
    /\ clab' = [clab EXCEPT !.stdout = "closed"]
    /\ UNCHANGED <<backend, config, cli>>

\* The subprocess exits; its output stream is closed with it
ProcExit(code) ==
    /\ clab.proc = "running"
    /\ clab' = [clab EXCEPT !.proc = "exited", !.code = code, !.stdout = "closed"]
    /\ UNCHANGED <<backend, config, cli>>

\* 45 seconds pass while the subprocess runs.  Time does not pass a timeout
\* of wait(): the waiter is woken at its deadline.
ProcTick ==
    /\ clab.proc = "running"
    /\ clab.elapsed < MaxTicks
    /\ ~(clab.pc = "waiting" /\ clab.elapsed >= clab.deadline)
    /\ clab' = [clab EXCEPT !.elapsed = @ + 1]
    /\ UNCHANGED <<backend, config, cli>>

\* lines 206-213: the loop over process.stdout ends when the stream is
\* closed, whenever that is; process.wait(timeout=90) starts only then
BootstrapEof ==
    /\ clab.pc = "streaming"
    /\ clab.stdout = "closed"
    /\ clab' = [clab EXCEPT !.pc = "waiting", !.deadline = clab.elapsed + TimeoutTicks]
    /\ UNCHANGED <<backend, config, cli>>

\* lines 220-239: wait() returned, the exit code decides
BootstrapWaitDone ==
    /\ clab.pc = "waiting"
    /\ clab.proc = "exited"
    /\ clab' = [clab EXCEPT !.pc = "returned",
                    !.logs[clab.dep] = @ \cup {"Exit Code"},
                    !.ret = IF clab.code = 0 THEN [NoResult EXCEPT !.success = TRUE]
                            ELSE [NoResult EXCEPT !.error = "Bootstrap failed"]]
    /\ UNCHANGED <<backend, config, cli>>

\* lines 214-218, 241-247: wait() timed out, the subprocess is killed
BootstrapTimeout ==
    /\ clab.pc = "waiting"
    /\ clab.proc = "running"
    /\ clab.elapsed >= clab.deadline
    /\ clab' = [clab EXCEPT !.pc = "returned", !.proc = "killed",
                    !.logs[clab.dep] = @ \cup {"timed out after 90 seconds"},
                    !.ret = [NoResult EXCEPT !.error = "Bootstrap timed out",
                                             !.timeout = 90]]
    /\ UNCHANGED <<backend, config, cli>>

\* ------------------------------------------------------------------ labctl
\* LabCtlClient._request: a connection error or an HTTP error status ends
\* in sys.exit(1), that is SystemExit raised in the caller
_request(outcome) ==
    IF outcome \in {"http_error", "unreachable"} THEN "SystemExit" ELSE "response"

\* A health check that takes every answered request for healthy
health_check_AnyAnswer(h) == _request(h) # "SystemExit"

\* LabCtlClient.health_check: the bare except catches SystemExit too
health_check(h) == IF _request(h) = "SystemExit" THEN FALSE ELSE h = "healthy"

\* labctl <subcommand> is started
CliStart(cmd) ==
    /\ cli.pc \in {"idle", "exited"}
    /\ cli' = [IdleCli EXCEPT !.pc = "health", !.cmd = cmd]
    /\ UNCHANGED <<backend, clab, config>>

\* cli/main.py cli, lines 27-37: the group callback checks the health of
\* the backend before the subcommand runs
CliHealth(h) ==
    /\ cli.pc = "health"
    /\ alive \/ h = "unreachable"
    /\ cli' = IF health_check(h)
              THEN [cli EXCEPT !.pc = "command", !.health = h,
                               !.requests = @ \cup {"GET /api/health"}]
              ELSE [cli EXCEPT !.pc = "exited", !.health = h, !.exit = 1,
                               !.requests = @ \cup {"GET /api/health"}]
    /\ UNCHANGED <<backend, clab, config>>

\* cli/commands/repo.py list: one request, then the table is printed
CliRepoList ==
    /\ cli.pc = "command"
    /\ cli.cmd = "repo list"
    /\ cli' = [cli EXCEPT !.pc = "exited", !.exit = IF alive THEN 0 ELSE 1,
                          !.requests = @ \cup {"GET /api/repos"}]
    /\ UNCHANGED <<backend, clab, config>>

\* cli/commands/lab.py deploy, lines 27-32: the deployment is started and
\* the task id of the answer is kept
CliDeploy(lab) ==
    /\ cli.pc = "command"
    /\ cli.cmd = "deploy"
    /\ deploy_lab_async(lab, "latest", FALSE)
    /\ cli' = [cli EXCEPT !.pc = "polling", !.task = last'.task,
                          !.requests = @ \cup {"POST /api/labs/<lab_id>/deploy"}]

\* lines 42-51: one poll of GET /api/tasks/<task_id>.  A 404 ends the
\* client in _request; status running lets it sleep and poll again.
CliPoll ==
    /\ cli.pc = "polling"
    /\ alive
    /\ LET body == get_task_status(active_tasks, cli.task)
       IN  cli' = IF TaskHttpStatus(body) = "404"
                  THEN [cli EXCEPT !.pc = "exited", !.exit = 1,
                                   !.requests = @ \cup {"GET /api/tasks/<task_id>"}]
                  ELSE IF body.status = "completed"
                  THEN [cli EXCEPT !.pc = "final",
                                   !.requests = @ \cup {"GET /api/tasks/<task_id>"}]
                  ELSE [cli EXCEPT !.requests = @ \cup {"GET /api/tasks/<task_id>"}]
    /\ UNCHANGED <<backend, clab, config>>

\* lines 53-62: the task is read once more; final_status.get('result', {})
\* of a record without result has no success
CliFinal ==
    /\ cli.pc = "final"
    /\ alive
    /\ LET body == get_task_status(active_tasks, cli.task)
           ok == /\ TaskHttpStatus(body) = "200"
                 /\ \E res \in body.result : res.success
       IN  cli' = [cli EXCEPT !.pc = "exited", !.exit = IF ok THEN 0 ELSE 1]
    /\ UNCHANGED <<backend, clab, config>>

\* ---------------------------------------------- configuration operations
\* The partial documents passed to update_config and posted to the
\* settings route
Partials ==
    { EmptyMap,
      Pair("netbox", Mapping(Pair("token", "X"))),
      Pair("repos_dir", Scalar("/srv/repos")),
      Pair2("netbox", Mapping(Pair("token", "X")), "repos_dir", Scalar("/srv/repos")),
      Pair("clab_tools_password", Scalar("s1")),
      Pair("remote_credentials", Mapping(Pair("ssh_password", "s2"))),
      Pair("monitoring", Scalar("off")),
      Pair("monitoring", Mapping(Pair("grafana", "http://localhost:3000"))),
      Pair("extra", Mapping(Pair("url", "u"))) }

\* update_config(updates): load, merge, write, return the merged document
update_config(updates) ==
    /\ LET merged == _deep_update(load_config(config.file), updates)
       IN  config' = [file |-> YamlDump(merged),
                      answer |-> [op |-> "update_config", status |-> "",
                                  body |-> merged, request |-> updates]]
    /\ UNCHANGED <<backend, clab, cli>>

\* A request of /api/config/settings is served by the view function when
\* create_app registered settings_bp and answered 404 by Flask otherwise
SettingsRouted == "settings" \in DOMAIN app.blueprint

NotFound(op, data) ==
    [op |-> op, status |-> "404", body |-> ErrorBody("Not Found"), request |-> data]

\* The view function get_settings, lines 42-45: the answer it returns
get_settings_view ==
    [op |-> "GET", status |-> "200",
     body |-> _mask_passwords(load_config(config.file)), request |-> EmptyMap]

\* The view function update_settings, lines 55-80, for the JSON object
\* data: the configuration file and the answer after it
update_settings_view(data) ==
    IF data = EmptyMap
    THEN [config EXCEPT !.answer =
             [op |-> "POST", status |-> "400",
              body |-> ErrorBody("No data provided"), request |-> data]]
    ELSE IF filtered_data(data) = EmptyMap
    THEN [config EXCEPT !.answer =
             [op |-> "POST", status |-> "400",
              body |-> ErrorBody("No valid settings provided"), request |-> data]]
    ELSE LET merged == _deep_update(load_config(config.file), filtered_data(data))
         IN  [file |-> YamlDump(merged),
              answer |-> [op |-> "POST", status |-> "200",
                          body |-> _mask_passwords(merged), request |-> data]]

\* GET /api/config/settings
get_settings ==
    /\ config' = [config EXCEPT !.answer =
            IF SettingsRouted THEN get_settings_view ELSE NotFound("GET", EmptyMap)]
    /\ UNCHANGED <<backend, clab, cli>>

\* POST /api/config/settings with the JSON object data as its body
update_settings(data) ==
    /\ config' =
         IF ~SettingsRouted THEN [config EXCEPT !.answer = NotFound("POST", data)]
         ELSE update_settings_view(data)
    /\ UNCHANGED <<backend, clab, cli>>

\* ------------------------------------- the settings view functions, called
\* The two view functions of api/settings.py called as functions (the
\* application that create_app builds does not route to them)
CallGetSettings ==
    /\ config' = [config EXCEPT !.answer = get_settings_view]
    /\ UNCHANGED <<backend, clab, cli>>

CallUpdateSettings(data) ==
    /\ config' = update_settings_view(data)
    /\ UNCHANGED <<backend, clab, cli>>

\* ------------------------------------------- NetBoxManager, called directly
\* The operations of one NetBoxManager called by its owner; last keeps the
\* operation, its return value and what it did towards NetBox.
Returned(op, lab, r) ==
    /\ netbox' = r.nb
    /\ last' = Answer(op, lab, 0, r.ret, r.ext)
    /\ UNCHANGED <<alive, repos, deployments, dep_order, disk, active_tasks,
                   worker, now, app, clab, config, cli>>

NbAllocateIps(lab, conn, prefixOk, failAt) ==
    LET r == allocate_ips(netbox, ipam, lab, NodesCsv(lab), conn, prefixOk, failAt, {})
    IN  ipam' = r.ipam /\ Returned("allocate_ips", lab, r)

NbReleaseIps(lab, conn, filterOk) ==
    LET r == release_ips(netbox, ipam, lab, conn, filterOk)
    IN  ipam' = r.ipam /\ Returned("release_ips", lab, r)

NbRegisterDevices(lab, conn, setupOk, failed) ==
    LET r == register_devices(netbox, ipam, lab, NodesCsv(lab), conn, setupOk, failed)
    IN  ipam' = r.ipam /\ Returned("register_devices", lab, r)

NbUnregisterDevices(lab, conn, filterOk) ==
    LET r == unregister_devices(netbox, ipam, lab, conn, filterOk)
    IN  ipam' = r.ipam /\ Returned("unregister_devices", lab, r)

NbValidateConfig(conn, prefixOk) ==
    LET r == validate_config(netbox, conn, prefixOk)
    IN  ipam' = ipam /\ Returned("validate_config", "", r)

\* -------------------------------------------------- configuration scenarios
\* The entries that <repo>/device_configs may hold: subdirectories and plain
\* files, in the order of sorted() (code points)
EntryOrder == <<"README.md", "__pycache__", "advanced", "baseline">>

Entries ==
    { [name |-> "README.md", dir |-> FALSE], [name |-> "__pycache__", dir |-> TRUE],
      [name |-> "advanced", dir |-> TRUE], [name |-> "baseline", dir |-> TRUE] }

\* <repo>/device_configs in the file system: absent, a plain file, or a
\* directory with some of the entries
DeviceConfigs ==
    { [kind |-> "absent", entries |-> {}], [kind |-> "file", entries |-> {}] }
    \cup { [kind |-> "dir", entries |-> E] : E \in SUBSET Entries }

\* What a call of list_config_scenarios ends with: the list it returns, or
\* the exception it raises
Listed(list) == [raised |-> "", list |-> list]

\* LabManager.list_config_scenarios.  configs_dir.exists() holds for a
\* plain file as well, and iterdir() of a plain file raises; sorted() puts
\* the names in EntryOrder.
list_config_scenarios(rp, lab, dc) ==
    IF lab \notin DOMAIN rp THEN Listed(<<>>)
    ELSE IF dc.kind = "absent" THEN Listed(<<>>)
    ELSE IF dc.kind = "file" THEN [raised |-> "NotADirectoryError", list |-> <<>>]
    ELSE LET names == {e.name : e \in {x \in dc.entries :
                                          x.dir /\ x.name # "__pycache__"}}
         IN  Listed(SelectSeq(EntryOrder, LAMBDA n : n \in names))

ListScenarios(lab, dc) ==
    /\ alive
    /\ LET r == list_config_scenarios(repos, lab, dc)
       IN  Reply([op |-> "list_config_scenarios", lab |-> lab, task |-> 0,
                  result |-> IF r.raised = "" THEN "returned" ELSE r.raised,
                  calls |-> <<>>, seen |-> "", list |-> r.list])

\* line 424-428: some Deployment Record of the lab is active
is_deployed(deps, lab) ==
    \E d \in DOMAIN deps : deps[d].lab_id = lab /\ deps[d].status = "active"

\* scenario_dir.exists(): device_configs is a directory and holds an entry
\* of that name, a subdirectory or a plain file
scenario_dir_exists(dc, scenario) ==
    dc.kind = "dir" /\ \E e \in dc.entries : e.name = scenario

\* LabManager.apply_config_scenario: the result it returns; it writes no
\* state and calls neither ClabRunner nor GitOperations
apply_config_scenario(rp, deps, lab, scenario, dc) ==
    IF lab \notin DOMAIN rp THEN Failure("Lab not found")
    ELSE IF ~is_deployed(deps, lab) THEN Failure("is not deployed")
    ELSE IF ~scenario_dir_exists(dc, scenario) THEN Failure("Scenario not found")
    ELSE [success |-> TRUE, error |-> "", deployment_id |-> <<>>]

ApplyScenario(lab, scenario, dc) ==
    /\ alive
    /\ LET r == apply_config_scenario(repos, deployments, lab, scenario, dc)
       IN  Reply(Answer("apply_config_scenario", lab, 0,
                        IF r.success THEN "success" ELSE r.error, <<>>))

\* ------------------------------------------------------- GET /api/config
\* api/health.py get_config, lines 26-28: config is a shallow copy of
\* lab_manager.config, so config['netbox'] is the nested mapping of the
\* orchestrator itself and the assignment of "***" writes into it
MaskTokenInPlace(doc) ==
    IF "netbox" \in DOMAIN doc /\ doc["netbox"].map /\ "token" \in DOMAIN doc["netbox"].m
    THEN [doc EXCEPT !["netbox"].m["token"] = "***"]
    ELSE doc

\* GET /api/config: the handler reads the module-level name lab_manager of
\* api/health.py
health_get_config ==
    /\ alive
    /\ LET served == app.blueprint["health"]
       IN  IF served = "None"
           THEN Reply([Answer("GET /api/config", "", 0, "raised AttributeError", <<>>)
                          EXCEPT !.seen = served])
           ELSE /\ app' = [app EXCEPT !.config = MaskTokenInPlace(app.config)]
                /\ last' = [Answer("GET /api/config", "", 0, "200", <<>>)
                               EXCEPT !.seen = served]
                /\ UNCHANGED <<clab, config, cli, alive, repos, deployments, dep_order,
                               disk, active_tasks, worker, netbox, ipam, now>>

\* ---------------------------------------------------------- specification
Next ==
    \/ \E name \in Labs, in \in AddRepoInputs :
            AddRepo(name, in.exists, in.git, in.hasMeta, in.metadata, in.crash)
    \/ \E lab \in Labs : UpdateRepo(lab)
    \/ \E lab \in Labs, crash \in CrashPoints : RemoveRepo(lab, crash)
    \/ \E lab \in Labs, version \in {"latest", "v1"}, alloc \in BOOLEAN :
            DeployAsync(lab, version, alloc)
    \/ \E t \in TaskIds : TaskRegister(t)
    \/ \E t \in TaskIds : DeployBegin(t, FALSE)
    \/ \E t \in TaskIds, outcome \in BootOutcomes, save \in (CrashPoints \cup {"oserror"}) :
            DeployBootstrap(t, outcome, save)
    \/ \E t \in TaskIds : TaskMarkCompleted(t)
    \/ \E t \in TaskIds : TaskSetResult(t)
    \/ \E t \in TaskIds : TaskSetCompletedAt(t)
    \/ \E lab \in Labs : DestroyLab(lab, FALSE)
    \/ GetStatus
    \/ \E t \in TaskIds : GetTaskStatus(t)
    \/ repos_list_repos
    \/ \E hasUrl \in BOOLEAN : repos_add_repo(hasUrl)
    \/ Tick
    \/ Crash
    \/ Restart

Spec == Init /\ [][Next]_vars

\* The repository operations, with a deployment of the registered lab at
\* its latest version, within one second of the clock
NextRepos ==
    \/ \E name \in Labs, in \in AddRepoInputs :
            AddRepo(name, in.exists, in.git, in.hasMeta, in.metadata, in.crash)
    \/ \E lab \in Labs : UpdateRepo(lab)
    \/ \E lab \in Labs, crash \in CrashPoints : RemoveRepo(lab, crash)
    \/ \E lab \in Labs : DeployAsync(lab, "latest", FALSE)
    \/ \E t \in TaskIds : TaskRegister(t)
    \/ \E t \in TaskIds : DeployBegin(t, TRUE)
    \/ \E t \in TaskIds, outcome \in BootOutcomes : DeployBootstrap(t, outcome, "none")
    \/ \E t \in TaskIds : TaskMarkCompleted(t)
    \/ \E t \in TaskIds : TaskSetResult(t)
    \/ \E t \in TaskIds : TaskSetCompletedAt(t)
    \/ \E lab \in Labs : DestroyLab(lab, TRUE)
    \/ repos_list_repos
    \/ \E hasUrl \in BOOLEAN : repos_add_repo(hasUrl)
    \/ Crash
    \/ Restart

SpecRepos == Init /\ [][NextRepos]_vars

\* The orchestrator with the IP-management integration configured; the
\* process is not killed, the state file is written completely, every
\* deployment is of the version "latest" (no checkout) and the IPAM system
\* performs every delete of a rollback.
InitNetbox == Boot(TRUE)

NextNetbox ==
    \/ \E name \in Labs :
            AddRepo(name, FALSE, "ok", TRUE, MetaPlain, "none")
    \/ \E lab \in Labs : RemoveRepo(lab, "none")
    \/ \E lab \in Labs, alloc \in BOOLEAN : DeployAsync(lab, "latest", alloc)
    \/ \E t \in TaskIds : TaskRegister(t)
    \/ \E t \in TaskIds : DeployBegin(t, TRUE)
    \/ \E t \in TaskIds, outcome \in BootOutcomes : DeployBootstrap(t, outcome, "none")
    \/ \E t \in TaskIds : TaskMarkCompleted(t)
    \/ \E t \in TaskIds : TaskSetResult(t)
    \/ \E t \in TaskIds : TaskSetCompletedAt(t)
    \/ \E lab \in Labs : DestroyLab(lab, TRUE)
    \/ Tick

SpecNetbox == InitNetbox /\ [][NextNetbox]_vars

\* The IP allocation of deployments that ask for it, within one second of
\* the clock; the IPAM system may fail any create and any delete of a
\* rollback.
NextRollback ==
    \/ \E name \in Labs :
            AddRepo(name, FALSE, "ok", TRUE, MetaPlain, "none")
    \/ \E lab \in Labs : DeployAsync(lab, "latest", TRUE)
    \/ \E t \in TaskIds : TaskRegister(t)
    \/ \E t \in TaskIds : DeployBegin(t, FALSE)
    \/ \E t \in TaskIds, outcome \in BootOutcomes : DeployBootstrap(t, outcome, "none")
    \/ \E t \in TaskIds : TaskMarkCompleted(t)
    \/ \E t \in TaskIds : TaskSetResult(t)
    \/ \E t \in TaskIds : TaskSetCompletedAt(t)
    \/ \E lab \in Labs : DestroyLab(lab, TRUE)

SpecRollback == InitNetbox /\ [][NextRollback]_vars

\* Deployments and destroys of the single-node lab, each asking for
\* addresses: the prefix has room for several deployments of it
NextRelease ==
    \/ AddRepo("solo", FALSE, "ok", TRUE, MetaPlain, "none")
    \/ DeployAsync("solo", "latest", TRUE)
    \/ \E t \in TaskIds : TaskRegister(t)
    \/ \E t \in TaskIds : DeployBegin(t, TRUE)
    \/ \E t \in TaskIds, outcome \in BootOutcomes : DeployBootstrap(t, outcome, "none")
    \/ \E t \in TaskIds : TaskMarkCompleted(t)
    \/ \E t \in TaskIds : TaskSetResult(t)
    \/ \E t \in TaskIds : TaskSetCompletedAt(t)
    \/ DestroyLab("solo", TRUE)
    \/ Tick

SpecRelease == InitNetbox /\ [][NextRelease]_vars

\* The labctl process against a backend that stays up, one command after
\* the other, with the deployment threads its deploy command starts
NextCli ==
    \/ \E name \in Labs :
            AddRepo(name, FALSE, "ok", TRUE, MetaPlain, "none")
    \/ \E cmd \in {"deploy", "repo list"} : CliStart(cmd)
    \/ \E h \in {"healthy", "unhealthy", "http_error", "unreachable"} : CliHealth(h)
    \/ CliRepoList
    \/ \E lab \in Labs : CliDeploy(lab)
    \/ CliPoll
    \/ CliFinal
    \/ \E t \in TaskIds : TaskRegister(t)
    \/ \E t \in TaskIds : DeployBegin(t, TRUE)
    \/ \E t \in TaskIds, outcome \in BootOutcomes : DeployBootstrap(t, outcome, "none")
    \/ \E t \in TaskIds : TaskMarkCompleted(t)
    \/ \E t \in TaskIds : TaskSetResult(t)
    \/ \E t \in TaskIds : TaskSetCompletedAt(t)

SpecCli == Init /\ [][NextCli]_vars

\* ClabRunner.bootstrap_lab called again and again, with its subprocess
NextBootstrap ==
    \/ \E dep \in {1, 2}, present \in SUBSET Range(RequiredFiles), logOk \in BOOLEAN :
            BootstrapCall(dep, present, logOk)
    \/ \E outcome \in {"ok", "raise_config", "raise_run", "raise_popen"} : BootstrapPrelude(outcome)
    \/ ProcCloseStdout
    \/ \E code \in {0, 1} : ProcExit(code)
    \/ ProcTick
    \/ BootstrapEof
    \/ BootstrapWaitDone
    \/ BootstrapTimeout

SpecBootstrap == Init /\ [][NextBootstrap]_vars

\* The configuration module and the settings route of a backend whose
\* configuration file holds any of the credential values
InitConfig ==
    \E pw \in {"", "s1", "s2"}, ssh \in {"", "s1"}, sudo \in {"", "s2"}, token \in {"", "s1", "s2"} :
        BootWith(FALSE, ConfigWith(pw, ssh, sudo, token))

NextConfig ==
    \/ \E updates \in Partials : update_config(updates)
    \/ get_settings
    \/ \E data \in Partials : update_settings(data)

SpecConfig == InitConfig /\ [][NextConfig]_vars

\* The settings view functions on a configuration file with any
\* credentials; the documents posted are the partial documents and the body
\* of the GET answered last
NextSettings ==
    \/ CallGetSettings
    \/ \E data \in Partials \cup (IF config.answer.op = "GET" /\ config.answer.status = "200"
                                  THEN {config.answer.body} ELSE {}) :
            CallUpdateSettings(data)

SpecSettings == InitConfig /\ [][NextSettings]_vars

\* The labs the owner of the NetBoxManager names
IpamLabs == {"lab1", "lab2"}

\* One NetBoxManager built from a configuration that enables the
\* integration or not, with pynetbox importable or not
InitIpam ==
    \E cfg \in BOOLEAN, available \in BOOLEAN :
        BootAll(NetBoxManager(cfg, available), default_config)

NextIpam ==
    \/ \E lab \in IpamLabs, conn \in ConnOutcomes, prefixOk \in BOOLEAN, failAt \in 0..MaxNodes :
            NbAllocateIps(lab, conn, prefixOk, failAt)
    \/ \E lab \in IpamLabs, conn \in ConnOutcomes, filterOk \in BOOLEAN :
            NbReleaseIps(lab, conn, filterOk)
    \/ \E lab \in IpamLabs, conn \in ConnOutcomes, setupOk \in BOOLEAN,
          failed \in SUBSET Range(NodesCsv("lab1")) :
            NbRegisterDevices(lab, conn, setupOk, failed)
    \/ \E lab \in IpamLabs, conn \in ConnOutcomes, filterOk \in BOOLEAN :
            NbUnregisterDevices(lab, conn, filterOk)
    \/ \E conn \in ConnOutcomes, prefixOk \in BOOLEAN : NbValidateConfig(conn, prefixOk)

SpecIpam == InitIpam /\ [][NextIpam]_vars

\* The scenario operations of an orchestrator whose labs are registered,
\* removed, deployed and destroyed in between; the process is not killed
NextScenarios ==
    \/ \E name \in Labs :
            AddRepo(name, FALSE, "ok", TRUE, MetaPlain, "none")
    \/ \E lab \in Labs : RemoveRepo(lab, "none")
    \/ \E lab \in Labs : DeployAsync(lab, "latest", FALSE)
    \/ \E t \in TaskIds : TaskRegister(t)
    \/ \E t \in TaskIds : DeployBegin(t, TRUE)
    \/ \E t \in TaskIds, outcome \in BootOutcomes : DeployBootstrap(t, outcome, "none")
    \/ \E t \in TaskIds : TaskMarkCompleted(t)
    \/ \E t \in TaskIds : TaskSetResult(t)
    \/ \E t \in TaskIds : TaskSetCompletedAt(t)
    \/ \E lab \in Labs : DestroyLab(lab, TRUE)
    \/ \E lab \in Labs, dc \in DeviceConfigs : ListScenarios(lab, dc)
    \/ \E lab \in Labs, dc \in DeviceConfigs, scenario \in Range(EntryOrder) :
            ApplyScenario(lab, scenario, dc)

SpecScenarios == Init /\ [][NextScenarios]_vars

NextGetConfig ==
    \/ health_get_config
    \/ \E name \in Labs :
            AddRepo(name, FALSE, "ok", TRUE, MetaPlain, "none")
    \/ \E lab \in Labs, alloc \in BOOLEAN : DeployAsync(lab, "latest", alloc)
    \/ \E t \in TaskIds : TaskRegister(t)
    \/ \E t \in TaskIds : DeployBegin(t, TRUE)
    \/ \E t \in TaskIds, outcome \in BootOutcomes : DeployBootstrap(t, outcome, "none")
    \/ \E t \in TaskIds : TaskMarkCompleted(t)
    \/ \E t \in TaskIds : TaskSetResult(t)
    \/ \E t \in TaskIds : TaskSetCompletedAt(t)
    \/ \E lab \in Labs : DestroyLab(lab, TRUE)

\* GET /api/config between the deployments of an orchestrator whose
\* configuration enables the IP-management integration and holds a token
SpecGetConfig == BootWith(TRUE, ConfigWith("", "", "", "s1")) /\ [][NextGetConfig]_vars

\* ------------------------------------------------------------------ claims
\* C1: in every reachable state a lab id has at most one Deployment Record
\* with status active.
C1_AtMostOneActive ==
    \A lab \in Labs : Cardinality(ActiveDeployments(deployments, lab)) <= 1

\* C2: in every reachable state in which a lab id has an active Deployment
\* Record, Remove repository for it answers 'Cannot remove lab with active
\* deployment' (and so leaves repos unchanged).
C2_RemoveRefusedWhileActive ==
    \A lab \in Labs :
        alive /\ ActiveDeployments(deployments, lab) # {}
            => remove_repo(repos, deployments, lab)
                   = "Cannot remove lab with active deployment"

\* C3: in every reachable state the lab_id of every active Deployment Record
\* is a key of repos.
C3_ActiveDeploymentHasRepo ==
    \A d \in DOMAIN deployments :
        deployments[d].status = "active" => deployments[d].lab_id \in DOMAIN repos

\* C4: a Get task status served for a task id that Deploy lab (async) has
\* returned never answers 404 'Task not found'.
C4_ReturnedTaskIsFound ==
    (last.op = "get_task_status" /\ worker[last.task].pc # "unused")
        => last.result # "404"

\* C5: every started task ends with a Task Record of status completed that
\* carries a result; stated on finite runs: a deploy_task thread that has
\* ended, normally or by an exception, has left such a record.
C5_EndedThreadCompletedTask ==
    \A t \in TaskIds :
        worker[t].pc \in {"finished", "dead"}
            => /\ t \in DOMAIN active_tasks
               /\ active_tasks[t].status = "completed"
               /\ active_tasks[t].result # {}

\* C6: a Task Record that Get task status shows with status completed also
\* carries the result and the completed timestamp.
C6_CompletedSeenWithResult ==
    last.op = "get_task_status"
        => last.seen \notin {"completed without result", "completed without timestamp"}

\* C7: when Bootstrap returns failure in a deployment whose Allocate IPs
\* succeeded, the step that returns the failure has called Release IPs for
\* the lab last and has added no Deployment Record (memory and file).
C7_BootstrapFailureReleasesIps ==
    [][\A t \in TaskIds :
          (DeployBootstrap(t, "fail", "none") /\ "allocate_ips" \in Range(worker[t].calls))
              => /\ worker'[t].pc = "returned"
                 /\ worker'[t].result = {Failure("Bootstrap failed")}
                 /\ worker'[t].calls = Append(worker[t].calls, "release_ips")
                 /\ deployments' = deployments
                 /\ dep_order' = dep_order
                 /\ disk' = disk]_vars

C7_Witness ==
    \E t \in TaskIds :
        /\ worker[t].pc = "returned"
        /\ worker[t].result = {Failure("Bootstrap failed")}
        /\ "allocate_ips" \in Range(worker[t].calls)
        /\ worker[t].calls[Len(worker[t].calls)] = "release_ips"
        /\ \A r \in ipam.ips : r.lab # worker[t].lab_id

\* C8: the state file is at every moment one complete JSON document (the
\* prior or the new one), also after the process died in an operation that
\* persists the state.
C8_StateFileCompleteDocument == disk.kind \in {"absent", "complete"}

\* C9: a new orchestrator constructed from the state file reproduces the
\* in-memory state; stated for its particular case: after a successful Add
\* repository the entry loaded from the file equals the entry in memory.
C9_AddedRepoReloadsIdentically ==
    (alive /\ last.op = "add_repo" /\ last.result = "success")
        => /\ Loadable(disk)
           /\ last.lab \in DOMAIN _load_state(disk).repos
           /\ _load_state(disk).repos[last.lab] = repos[last.lab]

\* C10: Destroy lab with an active deployment.  When Teardown returns
\* success the record becomes destroyed with destroyed_at set and the state
\* is persisted; when Teardown returns failure the failure is returned, the
\* record stays active, state and file are unchanged and neither Release IPs
\* nor Unregister devices is called.
C10_DestroyFollowsTeardown ==
    [][\A lab \in Labs :
          LET dep == FirstActive(dep_order, deployments, lab)
          IN  (last'.op = "destroy_lab" /\ last'.lab = lab /\ dep # <<>>
                   /\ worker' = worker /\ active_tasks' = active_tasks /\ now' = now
                   /\ "teardown_lab" \in Range(last'.calls))
              => \A in \in DestroyInputs(lab) :
                    (in.crash = "none" /\ DestroyLabWith(lab, in))
                    => /\ in.outcome = "ok"
                          => /\ last'.result = "success"
                             /\ deployments'[dep].status = "destroyed"
                             /\ deployments'[dep].destroyed_at # {}
                             /\ disk' = [kind |-> "complete", doc |-> JsonDump(State')]
                       /\ in.outcome = "fail"
                          => /\ last'.result = "Teardown failed"
                             /\ deployments' = deployments
                             /\ deployments[dep].status = "active"
                             /\ repos' = repos
                             /\ dep_order' = dep_order
                             /\ disk' = disk
                             /\ ipam' = ipam
                             /\ "release_ips" \notin Range(last'.calls)
                             /\ "unregister_devices" \notin Range(last'.calls)]_vars

C10_Witness ==
    /\ last.op = "destroy_lab"
    /\ last.result = "Teardown failed"
    /\ \E d \in DOMAIN deployments :
          /\ deployments[d].status = "active"
          /\ deployments[d].netbox_ips_allocated
    /\ \E d \in DOMAIN deployments :
          /\ deployments[d].status = "destroyed"
          /\ deployments[d].destroyed_at # {}
          /\ deployments[d].netbox_ips_allocated

\* C11: a Destroy step that returns success leaves no Deployment Record of
\* the lab with status active, so that Remove repository for it succeeds.
C11_DestroyLeavesNoActive ==
    [][\A lab \in Labs :
          (last'.op = "destroy_lab" /\ last'.lab = lab /\ last'.result = "success")
              => \A in \in DestroyInputs(lab) :
                    DestroyLabWith(lab, in)
                    => /\ ActiveDeployments(deployments', lab) = {}
                       /\ remove_repo(repos', deployments', lab) = "success"]_vars

\* C12: a deployment step that calls Allocate IPs for N nodes while the
\* prefix has fewer than N available addresses gets the empty mapping, and
\* no create call is issued: the IP records are as they were.
C12_InsufficientCreatesNothing ==
    [][\A t \in TaskIds :
          (/\ worker[t].pc = "registered"
           /\ "allocate_ips" \in Range(worker'[t].calls)
           /\ Cardinality(AvailableIps(ipam)) < Len(NodesCsv(worker[t].lab_id)))
          => /\ worker'[t].ip_assignments = EmptyMap
             /\ worker'[t].result = {Failure("Failed to allocate IPs from NetBox")}
             /\ worker'[t].calls = <<"allocate_ips">>
             /\ ipam'.ips = ipam.ips]_vars

C12_Witness ==
    \E t \in TaskIds :
        /\ worker[t].pc = "returned"
        /\ worker[t].calls = <<"allocate_ips">>
        /\ worker[t].result = {Failure("Failed to allocate IPs from NetBox")}
        /\ netbox.enabled
        /\ Cardinality(AvailableIps(ipam)) \in 1..(Len(NodesCsv(worker[t].lab_id)) - 1)

\* C13: when the k-th create call of an Allocate IPs invocation throws, the
\* calls it has issued are k-1 creates, the create that threw and then k-1
\* deletes, nothing more; it returns the empty mapping, and when no delete
\* throws the k-1 records created are the ones deleted.
C13_RollbackDeletesCreated ==
    [][\A t \in TaskIds :
          (worker[t].pc = "registered" /\ "create!" \in Range(worker'[t].calls))
          => LET c == worker'[t].calls
                 k == Cardinality({i \in 1..Len(c) : c[i] \in {"create", "create!"}})
             IN  /\ Len(c) = 2 * k
                 /\ c[1] = "allocate_ips"
                 /\ \A i \in 2..k : c[i] = "create"
                 /\ c[k + 1] = "create!"
                 /\ \A i \in (k + 2)..(2 * k) : c[i] \in {"delete", "delete!"}
                 /\ worker'[t].ip_assignments = EmptyMap
                 /\ worker'[t].result = {Failure("Failed to allocate IPs from NetBox")}
                 /\ ("delete!" \notin Range(c) => ipam'.ips = ipam.ips)]_vars

C13_Witness ==
    \E t \in TaskIds :
        /\ worker[t].pc = "returned"
        /\ worker[t].calls = <<"allocate_ips", "create", "create!", "delete">>
        /\ worker[t].result = {Failure("Failed to allocate IPs from NetBox")}

\* C14: Allocate IPs is all-or-nothing.  A deployment step whose Allocate
\* IPs returned the empty mapping leaves no IP record it created; one that
\* got a mapping has an entry for every node of the lab, each the address
\* of a distinct record created in the step.
C14_AllocationAllOrNothing ==
    [][\A t \in TaskIds :
          (worker[t].pc = "registered" /\ "allocate_ips" \in Range(worker'[t].calls))
          => LET new == ipam'.ips \ ipam.ips
                 got == worker'[t].ip_assignments
             IN  /\ worker'[t].result = {Failure("Failed to allocate IPs from NetBox")}
                    => new = {}
                 /\ got # EmptyMap
                    => /\ DOMAIN got = Range(NodesCsv(worker[t].lab_id))
                       /\ \A nd \in DOMAIN got :
                             \E r \in new : r.node = nd /\ r.address = got[nd]
                       /\ \A n1, n2 \in DOMAIN got : n1 # n2 => got[n1] # got[n2]]_vars

\* C15: a deployment step that aborts in the IP-allocation step (Allocate
\* IPs returned the empty mapping, or the rewrite of nodes.csv failed) does
\* not call Bootstrap and adds no Deployment Record (memory and file); on
\* the rewrite failure its last call, before the error is returned, is
\* Release IPs.
C15_AllocationAbort ==
    [][\A t \in TaskIds :
          LET res == worker'[t].result
              c == worker'[t].calls
          IN  (/\ worker[t].pc = "registered"
               /\ res \in {{Failure("Failed to allocate IPs from NetBox")},
                           {Failure("Failed to update nodes.csv with IPs")}})
              => /\ worker'[t].pc = "returned"
                 /\ "bootstrap_lab" \notin Range(c)
                 /\ deployments' = deployments
                 /\ dep_order' = dep_order
                 /\ disk' = disk
                 /\ res = {Failure("Failed to update nodes.csv with IPs")}
                    => /\ Len(c) >= 3
                       /\ c[Len(c) - 1] = "update_nodes_csv"
                       /\ c[Len(c)] = "release_ips"
                       /\ "allocate_ips" \in Range(c)]_vars

C15_Witness ==
    \E t \in TaskIds :
        /\ worker[t].pc = "returned"
        /\ worker[t].result = {Failure("Failed to update nodes.csv with IPs")}
        /\ worker[t].calls[Len(worker[t].calls)] = "release_ips"
        /\ \A r \in ipam.ips : r.lab # worker[t].lab_id
        /\ deployments = EmptyMap

C17_CleanupFollowsAllocation ==
    [][\A lab \in Labs :
          LET dep == FirstActive(dep_order, deployments, lab)
              c == last'.calls
              count(x) == Cardinality({i \in 1..Len(c) : c[i] = x})
          IN  (last'.op = "destroy_lab" /\ last'.lab = lab /\ dep # <<>>
                   /\ worker' = worker /\ active_tasks' = active_tasks /\ now' = now
                   /\ netbox.present /\ "teardown_lab" \in Range(c))
              => \A in \in DestroyInputs(lab) :
                    (in.crash = "none" /\ DestroyLabWith(lab, in))
                    => /\ c[1] = "teardown_lab"
                       /\ count("teardown_lab") = 1
                       /\ in.outcome = "ok" /\ deployments[dep].netbox_ips_allocated
                          => c = <<"teardown_lab", "release_ips", "unregister_devices">>
                       /\ in.outcome = "ok" /\ ~deployments[dep].netbox_ips_allocated
                          => count("release_ips") = 0 /\ count("unregister_devices") = 0
                       /\ in.outcome # "ok"
                          => count("release_ips") = 0 /\ count("unregister_devices") = 0
                       /\ last'.seen = "Failed to release some NetBox IPs"
                          => count("unregister_devices") = 1]_vars

C17_Witness ==
    /\ last.op = "destroy_lab"
    /\ last.result = "success"
    /\ last.calls = <<"teardown_lab", "release_ips", "unregister_devices">>
    /\ last.seen = "Failed to release some NetBox IPs"
    /\ \E d \in DOMAIN deployments :
          deployments[d].status = "destroyed" /\ deployments[d].netbox_ips_allocated

\* C18: no operation of Git Operations, the Deployment Executor or the
\* IP-Management Integration lets an exception escape to the orchestrator:
\* no deployment thread has been ended, and no Destroy aborted, by an
\* exception one of them raised.
C18_ComponentsNeverRaise ==
    /\ \A t \in TaskIds :
          worker[t].raised \notin {"GitOperations.checkout", "ClabRunner.bootstrap_lab"}
    /\ ~(last.op = "destroy_lab" /\ last.seen = "ClabRunner.teardown_lab")

\* C19: an orchestrator operation that an HTTP handler calls synchronously
\* returns a result and never raises, in every reachable state: the answer
\* of the last handler served is never an exception.
SynchronousOps ==
    {"add_repo", "update_repo", "remove_repo", "destroy_lab", "get_status",
     "get_task_status"}

C19_HandlerOpsNeverRaise ==
    last.op \in SynchronousOps =>
        last.result \notin {"raised KeyError", "raised FileNotFoundError"}

\* C20: a request to an orchestrator-backed route of the modular API is
\* served by the one orchestrator instance create_app built: whenever the
\* handler of GET /api/repos or POST /api/repos has reached for its
\* orchestrator, the object it called is app.lab_manager.
C20_RoutesServedByAppInstance ==
    /\ last.op \in {"GET /api/repos", "POST /api/repos"}
    /\ last.result # "400 Repository URL required"
    => last.seen = app.lab_manager

\* C21: Bootstrap always returns.  A bootstrap subcommand that has not
\* exited 90 seconds after it was started is killed, whether or not it holds
\* its output stream open, and Bootstrap returns 'timed out' with timeout
\* 90: the subprocess is never found running later than 90 seconds after
\* its start.
C21_BootstrapTimesOut ==
    /\ clab.proc = "running" => clab.elapsed <= TimeoutTicks
    /\ clab.proc = "killed"
          => /\ clab.pc = "returned"
             /\ clab.ret.error = "Bootstrap timed out"
             /\ clab.ret.timeout = 90

\* C22: whenever Bootstrap has returned (success, non-zero exit, timeout,
\* exception, failed input validation) the log file of the deployment
\* exists and holds the header block and an exit code or an error text.
C22_LogFileAfterBootstrap ==
    clab.pc = "returned"
    => /\ clab.dep \in DOMAIN clab.logs
       /\ Header \in clab.logs[clab.dep]
       /\ clab.logs[clab.dep] \ {Header} # {}

C24_UnhealthyBackendExits ==
    (cli.pc \notin {"idle", "health"} /\ cli.health # "healthy")
    => /\ cli.pc = "exited"
       /\ cli.exit = 1
       /\ cli.requests = {"GET /api/health"}

C24_Witness ==
    /\ cli.pc = "exited"
    /\ cli.cmd = "deploy"
    /\ cli.health = "unhealthy"
    /\ cli.exit = 1
    /\ cli.requests = {"GET /api/health"}

\* C25: the deploy command has not exited before the task it started is
\* completed, and its exit code is 0 exactly when the result of the task
\* has success true.
C25_DeployExitFollowsTask ==
    (cli.pc = "exited" /\ cli.cmd = "deploy" /\ cli.task # 0)
    => /\ cli.task \in DOMAIN active_tasks
       /\ active_tasks[cli.task].status = "completed"
       /\ cli.exit = 0 <=> \E res \in active_tasks[cli.task].result : res.success

\* C26: update_config with a partial document changes exactly the fields the
\* partial document names (a nested mapping is merged key by key into a
\* nested mapping, any other value replaces the field), leaves every other
\* top-level and nested field as it was, returns the merged document, and a
\* following load_config returns that document.
C26_UpdateMergesPartial ==
    [][\A u \in Partials :
        (config'.answer.request = u /\ update_config(u)) =>
        LET before == load_config(config.file)
            after == load_config(config'.file)
        IN  /\ config'.answer.body = after
            /\ DOMAIN after = DOMAIN before \cup DOMAIN u
            /\ \A k \in DOMAIN after :
                  IF k \notin DOMAIN u THEN after[k] = before[k]
                  ELSE IF u[k].map /\ k \in DOMAIN before /\ before[k].map
                  THEN /\ after[k].map
                       /\ DOMAIN after[k].m = DOMAIN before[k].m \cup DOMAIN u[k].m
                       /\ \A j \in DOMAIN after[k].m :
                             after[k].m[j] = IF j \in DOMAIN u[k].m THEN u[k].m[j]
                                             ELSE before[k].m[j]
                  ELSE after[k] = u[k]]_vars

\* update_config({netbox: {token: "X"}}) has returned, the file loads with
\* netbox.token "X", netbox.url and repos_dir as they were
C26_Witness ==
    /\ config.answer.op = "update_config"
    /\ config.answer.request = Pair("netbox", Mapping(Pair("token", "X")))
    /\ load_config(config.file)["netbox"] = Mapping(Pair2("url", "", "token", "X"))
    /\ load_config(config.file)["repos_dir"] = Scalar("~/.labctl/repos")
    /\ load_config(config.file)["clab_tools_password"] = Scalar("s2")

\* C27: GET /api/config/settings answers 200 with the stored document in
\* which each non-empty one of clab_tools_password,
\* remote_credentials.ssh_password, remote_credentials.sudo_password and
\* netbox.token reads '****' and every other field is verbatim, so the body
\* does not depend on the credential values.
C27_SettingsBodyMasked ==
    config.answer.op = "GET" =>
        LET doc == load_config(config.file)
            body == config.answer.body
            Shown(v) == IF v = "" THEN "" ELSE "****"
        IN  /\ config.answer.status = "200"
            /\ DOMAIN body = DOMAIN doc
            /\ \A k \in DOMAIN doc :
                  IF k = "clab_tools_password" THEN body[k] = Scalar(Shown(doc[k].s))
                  ELSE IF ~doc[k].map THEN body[k] = doc[k]
                  ELSE /\ body[k].map
                       /\ DOMAIN body[k].m = DOMAIN doc[k].m
                       /\ \A j \in DOMAIN doc[k].m :
                             body[k].m[j] =
                                IF \/ k = "remote_credentials" /\ j \in {"ssh_password", "sudo_password"}
                                   \/ k = "netbox" /\ j = "token"
                                THEN Shown(doc[k].m[j]) ELSE doc[k].m[j]

\* C28: POST /api/config/settings changes no top-level key outside
\* clab_tools_password, remote_credentials, monitoring and netbox, and a
\* body that is empty or holds none of these keys is answered 400 and leaves
\* the configuration file as it was.
C28_SettingsPostAllowList ==
    [][\A d \in Partials :
        (config'.answer.request = d /\ update_settings(d)) =>
        LET before == load_config(config.file)
            after == load_config(config'.file)
            allow == {"clab_tools_password", "remote_credentials", "monitoring", "netbox"}
        IN  /\ DOMAIN after \ allow = DOMAIN before \ allow
            /\ \A k \in DOMAIN before \ allow : after[k] = before[k]
            /\ DOMAIN d \cap allow = {} =>
                  /\ config'.answer.status = "400"
                  /\ config'.file = config.file]_vars

\* C29: no operation of a disabled NetBoxManager does anything towards
\* NetBox: release_ips and unregister_devices return True, allocate_ips
\* returns an empty mapping, register_devices returns an empty list, and the
\* records of the external system stay as they are.
C29_DisabledIssuesNoCall ==
    [][~netbox.enabled =>
        /\ last'.calls = <<>>
        /\ ipam' = ipam
        /\ last'.op \in {"release_ips", "unregister_devices"} => last'.result = TRUE
        /\ last'.op = "allocate_ips" => last'.result = EmptyMap
        /\ last'.op = "register_devices" => last'.result = {}]_vars

\* release_ips has returned on an instance built from a configuration that
\* does not enable the integration
C29_Witness ==
    /\ netbox.present /\ ~netbox.configured /\ ~netbox.enabled
    /\ last.op = "release_ips"
    /\ last.result = TRUE

\* C30: an operation in which establishing the handle fails (the
\* construction or the status probe raises) leaves the integration
\* disabled; a disabled integration stays disabled and its operations
\* neither connect nor call NetBox; an established handle is kept and no
\* operation connects again.
C30_FailedConnectionDisables ==
    [][LET did == {last'.calls[i] : i \in 1..Len(last'.calls)}
       IN  /\ did \cap {"connect!", "status!"} # {} => ~netbox'.enabled
           /\ (netbox.configured /\ ~netbox.enabled) =>
                 ~netbox'.enabled /\ last'.calls = <<>>
           /\ (netbox.enabled /\ netbox.api) =>
                 /\ netbox'.enabled /\ netbox'.api
                 /\ did \cap {"connect", "connect!"} = {}]_vars

\* allocate_ips has returned without a call on an instance whose status
\* probe failed in an earlier operation
C30_Witness ==
    /\ netbox.configured /\ netbox.api /\ ~netbox.enabled
    /\ last.op = "allocate_ips"
    /\ last.calls = <<>>

\* C31: list_config_scenarios returns an empty list when the lab is not
\* registered or has no device_configs directory, and otherwise the sorted
\* names of the subdirectories of device_configs other than __pycache__,
\* plain files excluded.
C31_ScenariosListed ==
    [][\A lab \in Labs, dc \in DeviceConfigs :
        (last'.op = "list_config_scenarios" /\ ListScenarios(lab, dc)) =>
            /\ last'.result = "returned"
            /\ last'.list =
                 IF lab \notin DOMAIN repos \/ dc.kind # "dir" THEN <<>>
                 ELSE SelectSeq(EntryOrder, LAMBDA n :
                        /\ n # "__pycache__"
                        /\ [name |-> n, dir |-> TRUE] \in dc.entries)]_vars

\* C32: apply_config_scenario succeeds only when the lab is registered, has
\* an active Deployment Record and the scenario directory exists; otherwise
\* it fails with 'Lab not found', then 'is not deployed', then 'Scenario not
\* found'; it never changes the state document.
C32_ApplyScenarioChecks ==
    [][\A lab \in Labs, dc \in DeviceConfigs, scenario \in Range(EntryOrder) :
        (last'.op = "apply_config_scenario" /\ ApplyScenario(lab, scenario, dc)) =>
            LET registered == lab \in DOMAIN repos
                active == \E d \in DOMAIN deployments :
                            /\ deployments[d].lab_id = lab
                            /\ deployments[d].status = "active"
                isdir == dc.kind = "dir" /\ [name |-> scenario, dir |-> TRUE] \in dc.entries
            IN  /\ disk' = disk /\ repos' = repos /\ deployments' = deployments
                /\ (last'.result = "success") = (registered /\ active /\ isdir)
                /\ ~registered => last'.result = "Lab not found"
                /\ registered /\ ~active => last'.result = "is not deployed"
                /\ registered /\ active /\ ~isdir => last'.result = "Scenario not found"]_vars

C34_FailedAddRepoChangesNothing ==
    [][(last'.op = "add_repo" /\ last'.result # "success" /\ last' # last) =>
        /\ last'.result \in {"git failed", "lab-metadata.yaml not found"}
        /\ repos' = repos
        /\ deployments' = deployments
        /\ disk' = disk]_vars

\* add_repo has answered that lab-metadata.yaml is absent, once after a
\* clone that succeeded, and the lab is not registered
C34_Witness ==
    /\ last.op = "add_repo"
    /\ last.result = "lab-metadata.yaml not found"
    /\ last.calls = <<"clone">>
    /\ last.lab \notin DOMAIN repos

C36_DeploymentsAppendOnly ==
    [][/\ \A t \in TaskIds :
            (/\ worker[t].pc = "bootstrapping"
             /\ worker'[t].pc = "returned"
             /\ \E res \in worker'[t].result : res.success)
            => worker[t].deployment_id \notin DOMAIN deployments
       /\ \A d \in DOMAIN deployments :
            /\ d \in DOMAIN deployments'
            /\ \/ deployments'[d] = deployments[d]
               \/ /\ deployments[d].status = "active"
                  /\ deployments'[d] = [deployments[d] EXCEPT !.status = "destroyed",
                                                              !.destroyed_at = {Stamp}]]_vars

\* C37: after any sequence of Deploy and Destroy operations, every address
\* in the ip_assignments of a Deployment Record that is active with
\* netbox_ips_allocated true still has its record in the external IPAM
\* system: a rollback and a destroy delete the addresses of their own
\* deployment only.
C37_ActiveKeepsItsAddresses ==
    \A d \in DOMAIN deployments :
        (deployments[d].status = "active" /\ deployments[d].netbox_ips_allocated)
        => \A nd \in DOMAIN deployments[d].ip_assignments :
              \E r \in ipam.ips : r.address = deployments[d].ip_assignments[nd]

\* C38: on an orchestrator whose IP-management integration was configured
\* enabled, a Deploy with allocate_ips true of a lab with at least one node
\* never records an active deployment with netbox_ips_allocated false: its
\* record has an address for every node, or the deployment fails, also
\* when an earlier request met an IPAM connection failure.
C38_AllocationNeverSkipped ==
    [][\A t \in TaskIds :
          (/\ worker[t].pc = "bootstrapping"
           /\ worker'[t].pc = "returned"
           /\ worker[t].allocate_ips
           /\ Len(NodesCsv(worker[t].lab_id)) >= 1
           /\ \E res \in worker'[t].result : res.success)
          => LET rec == deployments'[worker[t].deployment_id]
             IN  /\ rec.status = "active"
                 /\ rec.netbox_ips_allocated
                 /\ DOMAIN rec.ip_assignments = Range(NodesCsv(worker[t].lab_id))]_vars


\* C39: posting the document that GET /api/config/settings returned leaves
\* clab_tools_password, remote_credentials.ssh_password,
\* remote_credentials.sudo_password and netbox.token of the stored
\* configuration as they were: no '****' placeholder is stored as a
\* credential.
C39_RoundTripKeepsCredentials ==
    [][(/\ config.answer.op = "GET"
        /\ config.answer.status = "200"
        /\ config'.answer.op = "POST"
        /\ config'.answer.request = config.answer.body)
       => LET before == load_config(config.file)
              after == load_config(config'.file)
          IN  /\ after["clab_tools_password"] = before["clab_tools_password"]
              /\ after["remote_credentials"].m["ssh_password"]
                    = before["remote_credentials"].m["ssh_password"]
              /\ after["remote_credentials"].m["sudo_password"]
                    = before["remote_credentials"].m["sudo_password"]
              /\ after["netbox"].m["token"] = before["netbox"].m["token"]]_vars
====
